---- MODULE Spec2Model ----
(***************************************************************************)
(* A model of AgentRepair.py: the response formatter                       *)
(* (format_message_content), the file-backed parts-search cache            *)
(* (load_parts_cache, save_parts_cache, get_cached_parts_search,           *)
(* cache_parts_search), the Volvo context and prompt builders              *)
(* (get_volvo_context, create_car_repair_prompt) and the chat,             *)
(* new-conversation and status request handlers.                           *)
(*                                                                         *)
(* Text is a sequence of tokens.  A token is one code point or one         *)
(* fixed multi-character fragment that the code treats as a unit:          *)
(*   "nl"  line feed               "sp"  a blank (any non-newline space)   *)
(*   "a"   a letter outside ivx    "i"   a letter of [ivx]                 *)
(*   "1"   a digit 1-9             "."  ":"  "-"  themselves               *)
(*   "tri" U+25B6                  "VS"  U+FE0F      "KC"  U+20E3          *)
(*   "H"   a one-code-point header emoji of the class of line 299          *)
(*   "W"   the first code point of a header emoji written with U+FE0F      *)
(*         (U+26A0, U+23F1, U+1F6E0)                                       *)
(*   "w100" a run of 100 letters                                           *)
(*   "[WARNING]" "[warning]" "[/WARNING]" "[/warning]" "[TIP]" "[/TIP]"    *)
(*   "[COST]" "[/COST]"  the bracket tags, in two letter cases for one     *)
(* and the markup fragments the formatter writes, "<p>", "</p>", ...       *)
(***************************************************************************)
EXTENDS Integers, Sequences, FiniteSets, TLC

VARIABLES
    \* ---- formatter
    text,             \* the argument of format_message_content
    formatted_lines,  \* the list built by the line loop (line 275)
    formatted_text,   \* the return value
    fmt_pc,           \* "input" before the call, "done" after it, "twice" after a second one
    text_is_none,     \* the argument is None and not a string
    formatted_twice,  \* the return value of the call on formatted_text
    \* ---- parts-search cache
    cache_file,       \* what PARTS_CACHE_FILE holds on disk
    now,              \* datetime.now(), in ticks
    last_op,          \* the last cache call: its arguments and its outcome
    insert_order,     \* history: keys by their last successful insertion, oldest first
    read_removed,     \* history: a read has deleted an expired entry
    \* ---- two requests racing in cache_parts_search
    pc,               \* per request: "idle", "loaded", "inserted", "done"
    local,            \* per request: its local cache_data
    req,              \* per request: the key and payload it caches
    saw_other,        \* history: per request, the other had saved when it loaded
    last_saver,       \* history: the request that saved last (0: none yet)
    \* ---- chat session
    api_key_set,          \* os.getenv('OPENAI_API_KEY') is set
    session_history,      \* session['conversation_history'] (<<>> when absent)
    session_conv_id,      \* session['conversation_id']: <<>> when absent, <<id>> otherwise
    exchanges_done,       \* the number of exchanges answered so far (tags the turns)
    last_req,             \* the last request: endpoint and inputs
    response,             \* its response: status, error, body
    llm_calls,            \* calls of client.chat.completions.create in the last request
    scraper_calls,        \* calls of search_parts_sync in the last request
    sent_messages,        \* the messages passed to the LLM in the last request
    exchange_log,         \* history: the exchanges stored since the last reset, in order
    after_reset,          \* history: a reset was made and no exchange stored since
    postgres_available,   \* POSTGRES_AVAILABLE, set when the module is imported
    postgres_vector_db,   \* the global _postgres_vector_db: "None" or "db"
    vector_db_calls,      \* calls to the vector database in the last request
    \* ---- create_car_repair_prompt called twice with the same arguments
    prompt_args,          \* the arguments: user message, history, parts data
    prompt_pc,            \* "ready", "once", "twice"
    prompt_first,         \* the first call: its environment and its outcome
    prompt_second,        \* the second call
    \* ---- the two query functions applied to one user message
    query,                \* the message, a sequence of characters
    query_pc,             \* "input" before the calls, "done" after them
    is_parts,             \* what is_parts_related_query returned
    extracted_part,       \* what extract_part_name_from_query returned
    \* ---- the local extraction of get_volvo_context
    knowledge_base,       \* what load_volvo_knowledge_base returned
    user_message,         \* the message, a sequence of characters
    context_parts,        \* the list that line 534 joins
    context_pc,           \* "input" before the call, "done" after it
    \* ---- the search-parts endpoint
    search_req,           \* the last request: part_name and zip_code of its body
    search_resp,          \* its response
    search_scraper_calls, \* calls of search_parts_sync in the last request
    answered,             \* history: per request, the time of its last scraper answer
    \* ---- the import of the application module
    module_importable,    \* postgres_vector_db can be imported
    annotations_eager,    \* the interpreter evaluates annotations when a def runs
    load_state,           \* "unloaded", "loaded", or "failed" when the import raised
    context_call          \* the last get_volvo_context call: its inputs and outcome

fmtVars == <<text, formatted_lines, formatted_text, fmt_pc, text_is_none, formatted_twice>>
cacheVars == <<cache_file, now, last_op, insert_order, read_removed>>
raceVars == <<pc, local, req, saw_other, last_saver>>
chatVars == <<api_key_set, session_history, session_conv_id, exchanges_done, last_req,
              response, llm_calls, scraper_calls, sent_messages, exchange_log, after_reset,
              vector_db_calls>>
envVars == <<postgres_available, postgres_vector_db>>
promptVars == <<prompt_args, prompt_pc, prompt_first, prompt_second>>

queryVars == <<query, query_pc, is_parts, extracted_part>>
\* the variables of the later sections, for the frame conditions of the earlier ones
kbVars == <<knowledge_base, user_message, context_parts, context_pc>>
searchVars == <<search_req, search_resp, search_scraper_calls, answered>>
importVars == <<module_importable, annotations_eager, load_state, context_call>>
restVars == <<queryVars, kbVars, searchVars, importVars>>

vars == <<fmtVars, cacheVars, raceVars, chatVars, envVars, promptVars, restVars>>

-----------------------------------------------------------------------------
(* Generic helpers on sequences and sets of integers.                      *)

Min(S) == CHOOSE x \in S : \A y \in S : x <= y

RECURSIVE Concat(_)
Concat(ss) == IF ss = <<>> THEN <<>> ELSE Head(ss) \o Concat(Tail(ss))

StartsWith(s, p) == Len(s) >= Len(p) /\ SubSeq(s, 1, Len(p)) = p

-----------------------------------------------------------------------------
(* is_parts_related_query and extract_part_name_from_query, lines 144-217. *)
(* A query is a sequence of characters, each a string of one character,    *)
(* so that `in' is substring search and not a comparison of words.         *)

UpperCase == <<"A", "B", "C", "D", "E", "F", "G", "H", "I", "J", "K", "L", "M",
               "N", "O", "P", "Q", "R", "S", "T", "U", "V", "W", "X", "Y", "Z">>
LowerCase == <<"a", "b", "c", "d", "e", "f", "g", "h", "i", "j", "k", "l", "m",
               "n", "o", "p", "q", "r", "s", "t", "u", "v", "w", "x", "y", "z">>
Digits == {"0", "1", "2", "3", "4", "5", "6", "7", "8", "9"}

IndexIn(seq, c) == CHOOSE i \in DOMAIN seq : seq[i] = c
IsIn(seq, c) == \E i \in DOMAIN seq : seq[i] = c

\* str.lower() with no conversion at all: what the functions would do
\* without lines 155 and 177.
lower_unchanged(s) == s

\* str.lower(), lines 155 and 177.
lower(s) ==
    [i \in DOMAIN s |-> IF IsIn(UpperCase, s[i]) THEN LowerCase[IndexIn(UpperCase, s[i])]
                        ELSE s[i]]

\* `pattern in message_lower'.
Contains(s, p) ==
    \E i \in 1..(Len(s) - Len(p) + 1) : SubSeq(s, i, i + Len(p) - 1) = p

AnyIn(s, phrases) == \E i \in DOMAIN phrases : Contains(s, phrases[i])

\* parts_keywords, lines 146-153.
parts_keywords ==
    << <<"n", "e", "e", "d", " ", "a", " ", "n", "e", "w">>,
       <<"n", "e", "e", "d", " ", "t", "o", " ", "r", "e", "p", "l", "a", "c", "e">>,
       <<"w", "h", "e", "r", "e", " ", "t", "o", " ", "b", "u", "y">>,
       <<"f", "i", "n", "d", " ", "p", "a", "r", "t", "s">>,
       <<"r", "e", "p", "l", "a", "c", "e", "m", "e", "n", "t", " ", "c", "o", "s", "t">>,
       <<"h", "o", "w", " ", "m", "u", "c", "h", " ", "f", "o", "r">>,
       <<"p", "a", "r", "t", " ", "p", "r", "i", "c", "e">>,
       <<"b", "u", "y", " ", "a">>,
       <<"o", "r", "d", "e", "r", " ", "a">>,
       <<"p", "u", "r", "c", "h", "a", "s", "e">>,
       <<"f", "i", "n", "d", " ", "a", " ", "u", "s", "e", "d">>,
       <<"u", "s", "e", "d", " ", "p", "a", "r", "t", "s">>,
       <<"j", "u", "n", "k", "y", "a", "r", "d">>,
       <<"s", "c", "r", "a", "p", "y", "a", "r", "d">>,
       <<"s", "a", "l", "v", "a", "g", "e">>,
       <<"o", "e", "m", " ", "p", "a", "r", "t", "s">>,
       <<"a", "f", "t", "e", "r", "m", "a", "r", "k", "e", "t">>,
       <<"p", "a", "r", "t", "s", " ", "s", "t", "o", "r", "e">>,
       <<"a", "u", "t", "o", " ", "p", "a", "r", "t", "s">>,
       <<"w", "h", "e", "r", "e", " ", "c", "a", "n", " ", "i", " ", "b", "u", "y">>,
       <<"c", "o", "s", "t">>,
       <<"p", "r", "i", "c", "e", " ", "o", "f">>,
       <<"h", "o", "w", " ", "m", "u", "c", "h", " ", "d", "o", "e", "s">>,
       <<"w", "h", "e", "r", "e", " ", "t", "o", " ", "f", "i", "n", "d">> >>

\* part_patterns of is_parts_related_query, lines 162-166.
part_patterns ==
    << <<"a", "l", "t", "e", "r", "n", "a", "t", "o", "r">>,
       <<"s", "t", "a", "r", "t", "e", "r">>,
       <<"b", "a", "t", "t", "e", "r", "y">>,
       <<"h", "e", "a", "d", "l", "i", "g", "h", "t">>,
       <<"t", "a", "i", "l", "l", "i", "g", "h", "t">>,
       <<"m", "i", "r", "r", "o", "r">>,
       <<"b", "u", "m", "p", "e", "r">>,
       <<"b", "r", "a", "k", "e">>,
       <<"t", "i", "r", "e">>,
       <<"w", "h", "e", "e", "l">>,
       <<"e", "n", "g", "i", "n", "e">>,
       <<"t", "r", "a", "n", "s", "m", "i", "s", "s", "i", "o", "n">>,
       <<"r", "a", "d", "i", "a", "t", "o", "r">>,
       <<"c", "o", "m", "p", "r", "e", "s", "s", "o", "r">>,
       <<"c", "o", "n", "v", "e", "r", "t", "e", "r">>,
       <<"a", "i", "r", "b", "a", "g">> >>

\* The list of line 169.
cost_words ==
    << <<"c", "o", "s", "t">>,
       <<"p", "r", "i", "c", "e">>,
       <<"m", "u", "c", "h">>,
       <<"b", "u", "y">>,
       <<"f", "i", "n", "d">> >>

\* Lines 144-173.
is_parts_related_query(message) ==
    LET message_lower == lower(message)
    IN  IF AnyIn(message_lower, parts_keywords) THEN TRUE
        ELSE IF AnyIn(message_lower, cost_words) /\ AnyIn(message_lower, part_patterns)
             THEN TRUE
             ELSE FALSE

\* part_patterns of extract_part_name_from_query, lines 180-201: a dict, iterated
\* in the order its items are written.
extract_part_patterns ==
    << [name |-> <<"a", "l", "t", "e", "r", "n", "a", "t", "o", "r">>,
        patterns |-> << <<"a", "l", "t", "e", "r", "n", "a", "t", "o", "r">> >>],
       [name |-> <<"s", "t", "a", "r", "t", "e", "r">>,
        patterns |-> << <<"s", "t", "a", "r", "t", "e", "r">>,
                      <<"s", "t", "a", "r", "t", "e", "r", " ", "m", "o", "t", "o", "r">> >>],
       [name |-> <<"b", "a", "t", "t", "e", "r", "y">>,
        patterns |-> << <<"b", "a", "t", "t", "e", "r", "y">> >>],
       [name |-> <<"h", "e", "a", "d", "l", "i", "g", "h", "t">>,
        patterns |-> << <<"h", "e", "a", "d", "l", "i", "g", "h", "t">>,
                      <<"h", "e", "a", "d", " ", "l", "i", "g", "h", "t">>,
                      <<"h", "e", "a", "d", "l", "a", "m", "p">> >>],
       [name |-> <<"t", "a", "i", "l", "l", "i", "g", "h", "t">>,
        patterns |-> << <<"t", "a", "i", "l", "l", "i", "g", "h", "t">>,
                      <<"t", "a", "i", "l", " ", "l", "i", "g", "h", "t">>,
                      <<"r", "e", "a", "r", " ", "l", "i", "g", "h", "t">> >>],
       [name |-> <<"m", "i", "r", "r", "o", "r">>,
        patterns |-> << <<"m", "i", "r", "r", "o", "r">>,
                      <<"s", "i", "d", "e", " ", "m", "i", "r", "r", "o", "r">> >>],
       [name |-> <<"b", "u", "m", "p", "e", "r">>,
        patterns |-> << <<"b", "u", "m", "p", "e", "r">> >>],
       [name |-> <<"h", "o", "o", "d">>,
        patterns |-> << <<"h", "o", "o", "d">>,
                      <<"b", "o", "n", "n", "e", "t">> >>],
       [name |-> <<"d", "o", "o", "r">>,
        patterns |-> << <<"d", "o", "o", "r">> >>],
       [name |-> <<"w", "h", "e", "e", "l">>,
        patterns |-> << <<"w", "h", "e", "e", "l">>,
                      <<"r", "i", "m">> >>],
       [name |-> <<"t", "i", "r", "e">>,
        patterns |-> << <<"t", "i", "r", "e">>,
                      <<"t", "y", "r", "e">> >>],
       [name |-> <<"b", "r", "a", "k", "e">>,
        patterns |-> << <<"b", "r", "a", "k", "e">>,
                      <<"b", "r", "a", "k", "e", " ", "p", "a", "d">>,
                      <<"b", "r", "a", "k", "e", " ", "r", "o", "t", "o", "r">> >>],
       [name |-> <<"e", "n", "g", "i", "n", "e">>,
        patterns |-> << <<"e", "n", "g", "i", "n", "e">>,
                      <<"m", "o", "t", "o", "r">> >>],
       [name |-> <<"t", "r", "a", "n", "s", "m", "i", "s", "s", "i", "o", "n">>,
        patterns |-> << <<"t", "r", "a", "n", "s", "m", "i", "s", "s", "i", "o", "n">>,
                      <<"g", "e", "a", "r", "b", "o", "x">> >>],
       [name |-> <<"r", "a", "d", "i", "a", "t", "o", "r">>,
        patterns |-> << <<"r", "a", "d", "i", "a", "t", "o", "r">> >>],
       [name |-> <<"a", "c", " ", "c", "o", "m", "p", "r", "e", "s", "s", "o", "r">>,
        patterns |-> << <<"a", "c", " ", "c", "o", "m", "p", "r", "e", "s", "s", "o", "r">>,
                      <<"a", "/", "c", " ", "c", "o", "m", "p", "r", "e", "s", "s", "o", "r">>,
                      <<"a", "i", "r", " ", "c", "o", "n", "d", "i", "t", "i", "o", "n", "i", "n", "g", " ", "c", "o", "m", "p", "r", "e", "s", "s", "o", "r">> >>],
       [name |-> <<"c", "a", "t", "a", "l", "y", "t", "i", "c", " ", "c", "o", "n", "v", "e", "r", "t", "e", "r">>,
        patterns |-> << <<"c", "a", "t", "a", "l", "y", "t", "i", "c", " ", "c", "o", "n", "v", "e", "r", "t", "e", "r">>,
                      <<"c", "a", "t", " ", "c", "o", "n", "v", "e", "r", "t", "e", "r">> >>],
       [name |-> <<"a", "i", "r", "b", "a", "g">>,
        patterns |-> << <<"a", "i", "r", "b", "a", "g">>,
                      <<"a", "i", "r", " ", "b", "a", "g">> >>],
       [name |-> <<"s", "e", "a", "t">>,
        patterns |-> << <<"s", "e", "a", "t">> >>],
       [name |-> <<"s", "t", "e", "e", "r", "i", "n", "g", " ", "w", "h", "e", "e", "l">>,
        patterns |-> << <<"s", "t", "e", "e", "r", "i", "n", "g", " ", "w", "h", "e", "e", "l">> >>] >>

NoPart == [none |-> TRUE, name |-> <<>>]
PartNamed(name) == [none |-> FALSE, name |-> name]

\* The class \w of the pattern of line 213.
IsWordChar(c) == IsIn(LowerCase, c) \/ IsIn(UpperCase, c) \/ c \in Digits \/ c = "_"

NeedANew == <<"n", "e", "e", "d", " ", "a", " ", "n", "e", "w", " ">>

\* The end of the longest run of word characters that starts at s[i].
RECURSIVE WordEnd(_, _)
WordEnd(s, i) == IF i < Len(s) /\ IsWordChar(s[i + 1]) THEN WordEnd(s, i + 1) ELSE i

\* re.search(r'need a new (\w+)', message_lower), lines 213-215: the leftmost
\* place where the phrase is followed by a word character, and the word there.
need_a_new_match(s) ==
    LET n == Len(NeedANew)
        starts == {i \in 1..(Len(s) - n) :
                     SubSeq(s, i, i + n - 1) = NeedANew /\ IsWordChar(s[i + n])}
    IN  IF starts = {} THEN NoPart
        ELSE LET i == Min(starts) + n IN PartNamed(SubSeq(s, i, WordEnd(s, i)))

\* The entries one of whose patterns occurs in the lowered message.
matching_entries(s) ==
    {i \in DOMAIN extract_part_patterns : AnyIn(s, extract_part_patterns[i].patterns)}

\* The loop of lines 204-207 taken from the end of the table.
first_match_reversed(hits) == CHOOSE i \in hits : \A j \in hits : j <= i

\* The loop of lines 204-207 returns at the first entry that matches.
first_match(hits) == Min(hits)

\* Lines 175-217.
extract_part_name_from_query(message) ==
    LET message_lower == lower(message)
        hits == matching_entries(message_lower)
    IN  IF hits # {} THEN PartNamed(extract_part_patterns[first_match(hits)].name)
        ELSE IF Contains(message_lower, <<"n", "e", "w", " ">>)
             THEN need_a_new_match(message_lower)
             ELSE NoPart

-----------------------------------------------------------------------------
(* format_message_content, lines 219-360.                                  *)

\* str.strip() and the regex class \s: the whitespace tokens.
IsWs(t) == t \in {"sp", "nl"}

RECURSIVE LStrip(_)
LStrip(s) == IF s # <<>> /\ IsWs(Head(s)) THEN LStrip(Tail(s)) ELSE s

RECURSIVE RStrip(_)
RStrip(s) ==
    IF s # <<>> /\ IsWs(s[Len(s)]) THEN RStrip(SubSeq(s, 1, Len(s) - 1)) ELSE s

\* text.strip(), line 246, and line.strip(), line 279.
strip(s) == RStrip(LStrip(s))

\* re.IGNORECASE on the tag patterns of lines 250-271.
IsOpenTag(t, kind) ==
    \/ kind = "warning" /\ t \in {"[WARNING]", "[warning]"}
    \/ kind = "tip" /\ t \in {"[TIP]"}
    \/ kind = "cost" /\ t \in {"[COST]"}

IsCloseTag(t, kind) ==
    \/ kind = "warning" /\ t \in {"[/WARNING]", "[/warning]"}
    \/ kind = "tip" /\ t \in {"[/TIP]"}
    \/ kind = "cost" /\ t \in {"[/COST]"}

\* The replacement strings of lines 252, 260, 268: the opening div and its label.
BoxOpen(kind) ==
    CASE kind = "warning" -> <<"<div.warning-box>", "label.Warning">>
      [] kind = "tip" -> <<"<div.tip-box>", "label.ProTip">>
      [] kind = "cost" -> <<"<div.cost-box>", "label.CostEstimate">>

\* re.sub(r'\[KIND\](.+?)\[/KIND\]', ..., flags=DOTALL|IGNORECASE): leftmost,
\* non-overlapping matches; the body is non-greedy but holds at least one
\* character, so the closing tag is the first one at least two tokens on.
RECURSIVE sub_callout(_, _)
sub_callout(s, kind) ==
    LET n == Len(s)
        closes(i) == {j \in (i + 2)..n : IsCloseTag(s[j], kind)}
        opens == {i \in 1..n : IsOpenTag(s[i], kind) /\ closes(i) # {}}
    IN  IF opens = {} THEN s
        ELSE LET i == Min(opens)
                 j == Min(closes(i))
             IN  SubSeq(s, 1, i - 1) \o BoxOpen(kind) \o SubSeq(s, i + 1, j - 1)
                     \o <<"</div>">> \o sub_callout(SubSeq(s, j + 1, n), kind)

\* text.split('\n'), line 274.
RECURSIVE split_lines(_)
split_lines(s) ==
    LET nls == {i \in 1..Len(s) : s[i] = "nl"}
    IN  IF nls = {} THEN <<s>>
        ELSE <<SubSeq(s, 1, Min(nls) - 1)>>
                 \o split_lines(SubSeq(s, Min(nls) + 1, Len(s)))

\* len(line): the number of characters a token stands for.
TokLen(t) ==
    CASE t = "w100" -> 100
      [] t \in {"[WARNING]", "[warning]"} -> 9
      [] t \in {"[/WARNING]", "[/warning]"} -> 10
      [] t = "[TIP]" -> 5
      [] t \in {"[/TIP]", "[COST]"} -> 6
      [] t = "[/COST]" -> 7
      [] t \in {"<p>", "<br>", "<li>"} -> 4
      [] t \in {"</p>"} -> 4
      [] t \in {"</ul>", "</li>"} -> 5
      [] t = "</div>" -> 6
      [] t \in {"<ul>", "<div.emoji-step>", "<div.tip-box>", "<div.cost-box>",
                "<div.warning-box>", "<div.section-header>", "<div.bold-header>",
                "label.Warning", "label.ProTip", "label.CostEstimate"} -> 23
      [] OTHER -> 1

RECURSIVE line_len(_)
line_len(s) == IF s = <<>> THEN 0 ELSE TokLen(Head(s)) + line_len(Tail(s))

\* The tail '\s+(.+)' of every line pattern, after a marker of k tokens: the
\* index where group (.+) starts, or 0 when the pattern does not match.  The
\* line is stripped, so a blank after the marker is followed by a non-blank.
RestIdx(line, k) ==
    IF k + 1 <= Len(line) /\ IsWs(line[k + 1])
    THEN LET rest == {j \in (k + 2)..Len(line) : ~IsWs(line[j])}
         IN  IF rest = {} THEN 0 ELSE Min(rest)
    ELSE 0

\* The number of leading tokens of the line that belong to S.
RECURSIVE LeadRun(_, _)
LeadRun(line, S) ==
    IF line # <<>> /\ Head(line) \in S THEN 1 + LeadRun(Tail(line), S) ELSE 0

\* re.match(r'^([1-9]️⃣)\s+(.+)', line), line 290.
emoji_step_match(line) ==
    IF StartsWith(line, <<"1", "VS", "KC">>) THEN RestIdx(line, 3) ELSE 0

\* re.match(r'^([...])\s+(.+)', line), line 299: one code point of the class.
\* The class is written with emoji that carry U+FE0F, so U+FE0F itself is a
\* member, and an emoji followed by U+FE0F is not followed by whitespace.
HeaderClass == {"H", "W", "VS"}

header_match(line) ==
    IF line # <<>> /\ Head(line) \in HeaderClass THEN RestIdx(line, 1) ELSE 0

\* bullet_patterns, lines 308-314, tried in order with re.IGNORECASE: the
\* length of the marker the first matching pattern consumes, or 0.
Letters == {"a", "i", "w100"}

MarkerLen(line, p) ==
    CASE p = 1 -> IF StartsWith(line, <<"tri", "VS">>) THEN 2 ELSE 0
      [] p = 2 -> IF StartsWith(line, <<"-">>) THEN 1 ELSE 0
      [] p = 3 -> LET d == LeadRun(line, {"1"})
                  IN  IF d >= 1 /\ d < Len(line) /\ line[d + 1] = "." THEN d + 1 ELSE 0
      [] p = 4 -> IF Len(line) >= 2 /\ line[1] \in {"a", "i"} /\ line[2] = "."
                  THEN 2 ELSE 0
      [] p = 5 -> LET r == LeadRun(line, {"i"})
                  IN  IF r >= 1 /\ r < Len(line) /\ line[r + 1] = "." THEN r + 1 ELSE 0

PatternMatch(line, p) ==
    IF MarkerLen(line, p) = 0 THEN 0 ELSE RestIdx(line, MarkerLen(line, p))

bullet_match(line) ==
    LET hits == {p \in 1..5 : PatternMatch(line, p) # 0}
    IN  IF hits = {} THEN 0 ELSE PatternMatch(line, Min(hits))

item_content_always_prefixed(line, g) ==
    <<"tri", "VS", "sp">> \o SubSeq(line, g, Len(line))

\* Lines 324-331.  pattern.startswith(r'^\▶️') is false for every pattern of
\* the list (none starts with a backslash after '^'), so the else branch runs.
item_content(line, g) ==
    LET content == SubSeq(line, g, Len(line))
    IN  IF StartsWith(content, <<"tri", "VS">>) THEN content
        ELSE <<"tri", "VS", "sp">> \o content

BOLD_HEADER_MAX == 100

\* One pass of the loop body, lines 279-345, on the state
\* [out |-> formatted_lines, in_list |-> in_list].
close_list(st) ==
    IF st.in_list THEN [out |-> Append(st.out, <<"</ul>">>), in_list |-> FALSE]
    ELSE st

emit(st, block) == [st EXCEPT !.out = Append(@, block)]

format_line(st, raw) ==
    LET line == strip(raw)
        s == emoji_step_match(line)
        h == header_match(line)
        b == bullet_match(line)
    IN  IF line = <<>> THEN emit(close_list(st), <<"<br>">>)
        ELSE IF s # 0 THEN
            emit(close_list(st),
                 <<"<div.emoji-step>", "1", "VS", "KC", "sp">>
                     \o SubSeq(line, s, Len(line)) \o <<"</div>">>)
        ELSE IF h # 0 THEN
            emit(close_list(st),
                 <<"<div.section-header>", Head(line), "sp">>
                     \o SubSeq(line, h, Len(line)) \o <<"</div>">>)
        ELSE IF b # 0 THEN
            LET opened == IF st.in_list THEN st
                          ELSE [out |-> Append(st.out, <<"<ul>">>), in_list |-> TRUE]
            IN  emit(opened, <<"<li>">> \o item_content(line, b) \o <<"</li>">>)
        ELSE IF line[Len(line)] = ":" /\ line_len(line) < BOLD_HEADER_MAX THEN
            emit(close_list(st), <<"<div.bold-header>">> \o line \o <<"</div>">>)
        ELSE emit(close_list(st), <<"<p>">> \o line \o <<"</p>">>)

RECURSIVE format_loop(_, _)
format_loop(st, lines) ==
    IF lines = <<>> THEN st
    ELSE format_loop(format_line(st, Head(lines)), Tail(lines))

\* build_lines without lines 347-349 (the list open at the end stays open).
build_lines_no_final_close(t) ==
    LET subbed == sub_callout(sub_callout(sub_callout(strip(t), "warning"), "tip"), "cost")
    IN  format_loop([out |-> <<>>, in_list |-> FALSE], split_lines(subbed)).out

\* Lines 246-349: the list formatted_lines after the loop and the final close.
build_lines(t) ==
    LET subbed == sub_callout(sub_callout(sub_callout(strip(t), "warning"), "tip"), "cost")
        st == format_loop([out |-> <<>>, in_list |-> FALSE], split_lines(subbed))
    IN  close_list(st).out

\* re.sub(r'(<br>\s*){2,}', '<br><br>', s), line 355: a maximal run of two or
\* more "<br>", each followed by any whitespace, becomes two "<br>".
RECURSIVE br_unit_end(_, _)
br_unit_end(s, i) ==
    \* s[i] = "<br>": the index after the whitespace that follows it
    IF i + 1 <= Len(s) /\ IsWs(s[i + 1]) THEN br_unit_end(s, i + 1) ELSE i + 1

RECURSIVE br_run_end(_, _)
br_run_end(s, i) ==
    \* the index after the last unit '<br>\s*' of the run of units starting at i
    IF i <= Len(s) /\ s[i] = "<br>" THEN br_run_end(s, br_unit_end(s, i)) ELSE i

RECURSIVE collapse_br(_)
collapse_br(s) ==
    IF s = <<>> THEN <<>>
    ELSE IF s[1] = "<br>" /\ br_unit_end(s, 1) <= Len(s) /\ s[br_unit_end(s, 1)] = "<br>"
         THEN <<"<br>", "<br>">> \o collapse_br(SubSeq(s, br_run_end(s, 1), Len(s)))
         ELSE <<Head(s)>> \o collapse_br(Tail(s))

\* re.sub(r'^<br>|<br>$', '', s), line 358.
trim_br_none(s) == s

\* re.sub(r'^<br>|<br>$', '', s), line 358.
trim_br(s) ==
    LET a == IF s # <<>> /\ Head(s) = "<br>" THEN Tail(s) ELSE s
    IN  IF a # <<>> /\ a[Len(a)] = "<br>" THEN SubSeq(a, 1, Len(a) - 1) ELSE a

\* Lines 352-360.
join_lines(ls) == trim_br(collapse_br(Concat(ls)))

format_message_content(t) ==
    IF t = <<>> THEN <<>> ELSE join_lines(build_lines(t))

\* Line 242, "if not text": None and the empty string are falsy.
falsy(is_none, t) == is_none \/ t = <<>>

\* The call with an argument that may be None.
format_message_content_of(is_none, t) ==
    IF falsy(is_none, t) THEN <<>> ELSE format_message_content(t)


-----------------------------------------------------------------------------
(* The parts-search cache, lines 80-142.                                   *)
(*                                                                         *)
(* The file holds: nothing ("missing"), something that cannot be opened    *)
(* ("unreadable"), text that is not JSON ("invalid_json"), a JSON list     *)
(* ("json_list"), a JSON number or null ("json_scalar"), or a JSON object  *)
(* ("mapping") whose entries are kept in the order of the object's keys    *)
(* (the order of the python dict).  A timestamp string is Iso(t), the      *)
(* isoformat() of the clock value t, or NoStamp, the default '' that       *)
(* .get('timestamp', '') gives for an entry without the field.             *)

CACHE_EXPIRY_HOURS == 1
MAX_CACHE_ENTRIES == 100

TicksPerHour == 2

\* timedelta(hours=CACHE_EXPIRY_HOURS), line 109.
expiry_delta == CACHE_EXPIRY_HOURS * TicksPerHour

\* datetime.isoformat(), line 127, and the default of lines 108 and 136.
Iso(t) == [iso |-> TRUE, t |-> t]
NoStamp == [iso |-> FALSE, t |-> 0]

\* The order of the timestamp strings: '' sorts before every ISO string, and
\* ISO strings of one format sort as their times do.
StampGreater(a, b) == IF a.iso /\ b.iso THEN a.t > b.t ELSE a.iso /\ ~b.iso

Entry(k, stamp, d) == [key |-> k, timestamp |-> stamp, data |-> d]

FileOf(kind, entries) == [kind |-> kind, entries |-> entries]

\* load_parts_cache that never finds the file: always {}.
load_parts_cache_empty(f) == [type |-> "dict", entries |-> <<>>]

\* load_parts_cache, lines 84-92: the value json.load returns, {} when the
\* file is missing or open/json.load raises.
load_parts_cache(f) ==
    CASE f.kind = "mapping" -> [type |-> "dict", entries |-> f.entries]
      [] f.kind = "json_list" -> [type |-> "list", entries |-> <<>>]
      [] f.kind = "json_scalar" -> [type |-> "scalar", entries |-> <<>>]
      [] OTHER -> [type |-> "dict", entries |-> <<>>]

\* save_parts_cache, lines 94-100: the file after the call; a failure to
\* open the file for writing is logged and leaves it as it was.
save_parts_cache(f, cache_data) ==
    IF f.kind = "unreadable" THEN f ELSE FileOf("mapping", cache_data.entries)

KeysOf(entries) == {entries[i].key : i \in DOMAIN entries}

\* cache_key in cache_data, line 106.
HasKey(entries, k) == \E i \in DOMAIN entries : entries[i].key = k

IndexOf(entries, k) == CHOOSE i \in DOMAIN entries : entries[i].key = k

\* a deletion that empties the dict
del_key_clear(entries, k) == <<>>

\* del cache_data[cache_key], line 116.
del_key(entries, k) ==
    LET i == IndexOf(entries, k)
    IN  SubSeq(entries, 1, i - 1) \o SubSeq(entries, i + 1, Len(entries))

\* cache_data[cache_key] = {...}, lines 126-129: an existing key keeps its
\* place in the dict, a new key goes last.
set_key(entries, e) ==
    IF HasKey(entries, e.key)
    THEN [entries EXCEPT ![IndexOf(entries, e.key)] = e]
    ELSE Append(entries, e)

\* The first `limit` items of a list.
take(entries, limit) ==
    IF Len(entries) <= limit THEN entries ELSE SubSeq(entries, 1, limit)

StampOlder(a, b) == StampGreater(b.timestamp, a.timestamp)
StampNewer(a, b) == StampGreater(a.timestamp, b.timestamp)

\* sorted(cache_data.items(), key=timestamp)[:limit]: the stable sort without
\* reverse=True, oldest first.
oldest_entries(entries, limit) == take(SortSeq(entries, StampOlder), limit)

\* sorted(cache_data.items(), key=timestamp, reverse=True)[:limit], lines
\* 134-139: a stable sort, newest first, cut to the first `limit` items.
newest_entries(entries, limit) == take(SortSeq(entries, StampNewer), limit)

\* Lines 126-139: the dict after the insertion and the clean-up.
insert_entry(entries, k, d, t) ==
    LET added == set_key(entries, Entry(k, Iso(t), d))
    IN  IF Len(added) > MAX_CACHE_ENTRIES
        THEN newest_entries(added, MAX_CACHE_ENTRIES)
        ELSE added

\* datetime.now() < expiry_time, line 111, with '<=' in place of '<'.
is_fresh_inclusive(stamp, t) == t <= stamp.t + expiry_delta

\* datetime.now() < expiry_time, lines 108-111 (the stamp parses).
is_fresh(stamp, t) == t < stamp.t + expiry_delta

\* The outcome of a call: the file after it, whether it raised, and what it
\* returned (ret "value" with the payload, or "none").
Outcome(f, raised, ret, d) == [file |-> f, raised |-> raised, ret |-> ret, data |-> d]

\* get_cached_parts_search, lines 102-120.
get_cached_parts_search(f, k, t) ==
    LET cache_data == load_parts_cache(f)
    IN  IF cache_data.type = "scalar"
        THEN Outcome(f, TRUE, "none", "-")         \* 'in' on a number: TypeError
        ELSE IF cache_data.type = "list" \/ ~HasKey(cache_data.entries, k)
        THEN Outcome(f, FALSE, "none", "-")
        ELSE LET e == cache_data.entries[IndexOf(cache_data.entries, k)]
             IN  IF ~e.timestamp.iso
                 THEN Outcome(f, TRUE, "none", "-") \* fromisoformat(''): ValueError
                 ELSE IF is_fresh(e.timestamp, t)
                 THEN Outcome(f, FALSE, "value", e.data)
                 ELSE Outcome(
                          save_parts_cache(f,
                              [cache_data EXCEPT !.entries = del_key(@, k)]),
                          FALSE, "none", "-")

\* cache_parts_search, lines 122-142.
cache_parts_search(f, k, d, t) ==
    LET cache_data == load_parts_cache(f)
    IN  IF cache_data.type # "dict"
        THEN Outcome(f, TRUE, "none", "-")         \* item assignment: TypeError
        ELSE Outcome(
                 save_parts_cache(f,
                     [cache_data EXCEPT !.entries = insert_entry(@, k, d, t)]),
                 FALSE, "none", "-")

-----------------------------------------------------------------------------
(* The cache's specification: one process calls the two functions in any   *)
(* order while the clock advances, starting from any file an earlier run   *)
(* or another program may have left.                                       *)

MaxTicks == 3

\* A store that n insertions at the times 1..n, without reads, leave behind.
Prefill(n) == [i \in 1..n |-> Entry(i, Iso(i), "d0")]

StartTime == MAX_CACHE_ENTRIES

InitialFiles ==
    { FileOf(k, <<>>) :
        k \in {"missing", "unreadable", "invalid_json", "json_list", "json_scalar"} }
    \cup { FileOf("mapping", Prefill(n)) :
              n \in {0, MAX_CACHE_ENTRIES - 1, MAX_CACHE_ENTRIES} }
    \cup { FileOf("mapping", <<Entry(MAX_CACHE_ENTRIES, NoStamp, "d0")>>) }

\* The keys of the calls: the oldest key of a prefilled store and a key no
\* prefilled store holds.
OpKeys == {1, MAX_CACHE_ENTRIES + 1}

Payloads == {"d1", "d2"}

NoOp == [op |-> "none", key |-> 0, data |-> "-",
         raised |-> FALSE, ret |-> "none", out |-> "-"]

RaceIdle ==
    /\ pc = <<"off", "off">>
    /\ local = <<<<>>, <<>>>>
    /\ req = <<NoOp, NoOp>>
    /\ saw_other = <<FALSE, FALSE>>
    /\ last_saver = 0

NoReply == [kind |-> "-", text |-> <<>>]
NoEnv == [init |-> "-", search |-> "-", kb |-> "-"]
NoReq == [endpoint |-> "none", body |-> "-", msg |-> "-", scraper |-> "-",
          llm |-> "-", reply |-> NoReply, env |-> NoEnv]
NoResponse == [status |-> 0, error |-> "-", formatted |-> <<>>, raw |-> NoReply,
               conv_id |-> <<>>]

ChatIdle ==
    /\ api_key_set = FALSE
    /\ session_history = <<>>
    /\ session_conv_id = <<>>
    /\ exchanges_done = 0
    /\ last_req = NoReq
    /\ response = NoResponse
    /\ llm_calls = 0
    /\ scraper_calls = 0
    /\ sent_messages = <<>>
    /\ exchange_log = <<>>
    /\ after_reset = FALSE
    /\ vector_db_calls = 0

EnvIdle ==
    /\ postgres_available = FALSE
    /\ postgres_vector_db = "None"

NoCall == [env |-> "-", raised |-> FALSE, context |-> <<>>, messages |-> <<>>]

PromptIdle ==
    /\ prompt_args = "-"
    /\ prompt_pc = "off"
    /\ prompt_first = NoCall
    /\ prompt_second = NoCall

QueryIdle ==
    /\ query = <<>>
    /\ query_pc = "off"
    /\ is_parts = FALSE
    /\ extracted_part = NoPart

\* ---- values of the search-parts endpoint, lines 920-1002
None == [none |-> TRUE, s |-> <<>>]
Str(s) == [none |-> FALSE, s |-> s]

NoParts == [part |-> <<>>, zip |-> None, as_of |-> 0]

SearchResponse(status, error, part_name, zip_code, parts, cached) ==
    [status |-> status, error |-> error, part_name |-> part_name, zip_code |-> zip_code,
     parts |-> parts, cached |-> cached]

SearchError(status, error) == SearchResponse(status, error, <<>>, None, NoParts, FALSE)

NoSearch == [part_name |-> None, zip_code |-> None]

SearchIdle ==
    /\ search_req = NoSearch
    /\ search_resp = SearchError(0, "-")
    /\ search_scraper_calls = 0
    /\ answered = <<>>

KbIdle ==
    /\ knowledge_base = "None"
    /\ user_message = <<>>
    /\ context_parts = <<>>
    /\ context_pc = "off"

NoContextCall == [made |-> FALSE, env |-> NoEnv, raised |-> FALSE, context |-> <<>>, calls |-> 0]

ImportIdle ==
    /\ module_importable = FALSE
    /\ annotations_eager = FALSE
    /\ load_state = "off"
    /\ context_call = NoContextCall

RestIdle == QueryIdle /\ KbIdle /\ SearchIdle /\ ImportIdle

CacheIdle ==
    /\ cache_file = FileOf("missing", <<>>)
    /\ now = StartTime
    /\ last_op = NoOp
    /\ insert_order = <<>>
    /\ read_removed = FALSE

FmtIdle ==
    /\ text = <<>>
    /\ formatted_lines = <<>>
    /\ formatted_text = <<>>
    /\ fmt_pc = "off"
    /\ text_is_none = FALSE
    /\ formatted_twice = <<>>

CacheInit ==
    /\ cache_file \in InitialFiles
    /\ now = StartTime
    /\ last_op = NoOp
    /\ insert_order = [i \in 1..Len(cache_file.entries) |-> cache_file.entries[i].key]
    /\ read_removed = FALSE
    /\ RaceIdle
    /\ RestIdle
    /\ FmtIdle
    /\ ChatIdle
    /\ EnvIdle
    /\ PromptIdle

\* A sequence of distinct keys without the key k.
without(s, k) ==
    IF \E i \in DOMAIN s : s[i] = k
    THEN LET i == CHOOSE i \in DOMAIN s : s[i] = k
         IN  SubSeq(s, 1, i - 1) \o SubSeq(s, i + 1, Len(s))
    ELSE s

Get(k) ==
    LET r == get_cached_parts_search(cache_file, k, now)
    IN  /\ cache_file' = r.file
        /\ last_op' = [op |-> "get", key |-> k, data |-> "-",
                       raised |-> r.raised, ret |-> r.ret, out |-> r.data]
        /\ read_removed' = (read_removed \/ r.file # cache_file)
        /\ UNCHANGED <<now, insert_order>>

Put(k, d) ==
    LET r == cache_parts_search(cache_file, k, d, now)
    IN  /\ cache_file' = r.file
        /\ last_op' = [op |-> "put", key |-> k, data |-> d,
                       raised |-> r.raised, ret |-> r.ret, out |-> r.data]
        /\ insert_order' = (IF r.raised \/ cache_file.kind = "unreadable"
                            THEN insert_order
                            ELSE Append(without(insert_order, k), k))
        /\ UNCHANGED <<now, read_removed>>

Tick ==
    /\ now < StartTime + MaxTicks
    /\ now' = now + 1
    /\ UNCHANGED <<cache_file, last_op, insert_order, read_removed>>

CacheNext ==
    /\ \/ \E k \in OpKeys : Get(k)
       \/ \E k \in OpKeys, d \in Payloads : Put(k, d)
       \/ Tick
    /\ UNCHANGED <<fmtVars, raceVars, chatVars, envVars, promptVars, restVars>>

SpecCache == CacheInit /\ [][CacheNext]_vars

-----------------------------------------------------------------------------
(* Two requests inside cache_parts_search at once: each runs its load      *)
(* (line 124), its insertion and clean-up (lines 126-139) and its save     *)
(* (line 141) as separate steps, in any interleaving.                      *)

Workers == {1, 2}
Other(p) == 3 - p

RaceKeys == {MAX_CACHE_ENTRIES + 1, MAX_CACHE_ENTRIES + 2}

RaceInit ==
    /\ cache_file \in {FileOf("missing", <<>>), FileOf("mapping", Prefill(1))}
    /\ now = StartTime
    /\ last_op = NoOp
    /\ insert_order = <<>>
    /\ read_removed = FALSE
    /\ pc = <<"idle", "idle">>
    /\ local = <<load_parts_cache(FileOf("missing", <<>>)),
                 load_parts_cache(FileOf("missing", <<>>))>>
    /\ req \in [Workers -> [key : RaceKeys, data : Payloads]]
    /\ saw_other = <<FALSE, FALSE>>
    /\ last_saver = 0
    /\ FmtIdle
    /\ RestIdle
    /\ ChatIdle
    /\ EnvIdle
    /\ PromptIdle

RaceLoad(p) ==
    /\ pc[p] = "idle"
    /\ local' = [local EXCEPT ![p] = load_parts_cache(cache_file)]
    /\ saw_other' = [saw_other EXCEPT ![p] = (pc[Other(p)] = "done")]
    /\ pc' = [pc EXCEPT ![p] = "loaded"]
    /\ UNCHANGED <<cache_file, now, req, last_saver>>

RaceInsert(p) ==
    /\ pc[p] = "loaded"
    /\ local' = [local EXCEPT ![p].entries = insert_entry(@, req[p].key, req[p].data, now)]
    /\ pc' = [pc EXCEPT ![p] = "inserted"]
    /\ UNCHANGED <<cache_file, now, req, saw_other, last_saver>>

RaceSave(p) ==
    /\ pc[p] = "inserted"
    /\ cache_file' = save_parts_cache(cache_file, local[p])
    /\ last_saver' = p
    /\ pc' = [pc EXCEPT ![p] = "done"]
    /\ UNCHANGED <<now, local, req, saw_other>>

RaceTick ==
    /\ now < StartTime + MaxTicks
    /\ now' = now + 1
    /\ UNCHANGED <<cache_file, pc, local, req, saw_other, last_saver>>

RaceNext ==
    /\ \/ \E p \in Workers : RaceLoad(p)
       \/ \E p \in Workers : RaceInsert(p)
       \/ \E p \in Workers : RaceSave(p)
       \/ RaceTick
    /\ UNCHANGED <<fmtVars, chatVars, envVars, promptVars, restVars, last_op,
                   insert_order, read_removed>>

SpecRace == RaceInit /\ [][RaceNext]_vars

-----------------------------------------------------------------------------
(* Properties of the cache.                                                *)

EntryOf(entries, k) == entries[IndexOf(entries, k)]

\* C4: with a working cache file, cache_parts_search(k, v) followed by
\* get_cached_parts_search(k) returns v while the clock is before the
\* entry's timestamp plus one hour; once the clock is at or past it, the
\* read returns none and k is no longer in the persisted store.
C4_RoundTripAndExpiry ==
    [][ (/\ last_op.op = "put" /\ ~last_op.raised
         /\ cache_file.kind = "mapping"
         /\ last_op'.op = "get" /\ last_op'.key = last_op.key)
        => /\ HasKey(cache_file.entries, last_op.key)
           /\ ~last_op'.raised
           /\ LET e == EntryOf(cache_file.entries, last_op.key)
              IN  /\ e.timestamp.iso
                  /\ IF now' < e.timestamp.t + CACHE_EXPIRY_HOURS * TicksPerHour
                     THEN /\ last_op'.ret = "value"
                          /\ last_op'.out = last_op.data
                     ELSE /\ last_op'.ret = "none"
                          /\ cache_file'.kind = "mapping"
                          /\ ~HasKey(cache_file'.entries, last_op.key) ]_vars

\* A read has returned a payload that only a cache_parts_search call stores.
C4_Witness ==
    /\ last_op.op = "get" /\ last_op.ret = "value" /\ last_op.out \in Payloads

Last(s, n) == IF Len(s) <= n THEN s ELSE SubSeq(s, Len(s) - n + 1, Len(s))

SetOf(s) == {s[i] : i \in DOMAIN s}

\* C5 as stated: after any sequence of the two calls the store holds at most
\* 100 entries, and once more than 100 distinct keys have been inserted it
\* holds exactly the 100 most recently inserted ones.
C5_ExactlyNewestAfterAnyCalls ==
    cache_file.kind = "mapping" =>
        /\ Len(cache_file.entries) <= MAX_CACHE_ENTRIES
        /\ Len(insert_order) > MAX_CACHE_ENTRIES =>
               KeysOf(cache_file.entries) = SetOf(Last(insert_order, MAX_CACHE_ENTRIES))

\* C5 amended: the store holds at most 100 entries, the entry just inserted
\* is among them, and while no read has deleted an expired entry, once more
\* than 100 distinct keys have been inserted it holds exactly the 100 most
\* recently inserted ones.
C5_NewestKeptUnlessReadRemoved ==
    cache_file.kind = "mapping" =>
        /\ Len(cache_file.entries) <= MAX_CACHE_ENTRIES
        /\ (last_op.op = "put" /\ ~last_op.raised) =>
               /\ HasKey(cache_file.entries, last_op.key)
               /\ EntryOf(cache_file.entries, last_op.key).data = last_op.data
        /\ (~read_removed /\ Len(insert_order) > MAX_CACHE_ENTRIES) =>
               KeysOf(cache_file.entries) = SetOf(Last(insert_order, MAX_CACHE_ENTRIES))

\* The clean-up has run: 101 keys were inserted, 100 are kept, the oldest is gone.
C5_Witness ==
    /\ cache_file.kind = "mapping"
    /\ ~read_removed
    /\ last_op.op = "put"
    /\ Len(insert_order) > MAX_CACHE_ENTRIES
    /\ Len(cache_file.entries) = MAX_CACHE_ENTRIES
    /\ ~HasKey(cache_file.entries, Head(insert_order))

\* C6: for two concurrent cache_parts_search calls with different keys, the
\* store after both holds the entry of the call that saved last, and holds
\* the other call's entry only if the last saver loaded after the other had
\* saved; the interleaving in which it is lost is reachable (C6_LostUpdate).
C6_LastSaverDecides ==
    (pc = <<"done", "done">> /\ req[1].key # req[2].key) =>
        /\ cache_file.kind = "mapping"
        /\ HasKey(cache_file.entries, req[last_saver].key)
        /\ HasKey(cache_file.entries, req[Other(last_saver)].key)
               <=> saw_other[last_saver]

\* Both calls have returned and the store holds only one of the two entries.
C6_LostUpdate ==
    /\ pc = <<"done", "done">>
    /\ req[1].key # req[2].key
    /\ Cardinality({p \in Workers : HasKey(cache_file.entries, req[p].key)}) = 1

\* the entry of key k is in the store and its hour has passed at time t
IsExpiredIn(f, k, t) ==
    /\ f.kind = "mapping"
    /\ HasKey(f.entries, k)
    /\ EntryOf(f.entries, k).timestamp.iso
    /\ t >= EntryOf(f.entries, k).timestamp.t + CACHE_EXPIRY_HOURS * TicksPerHour

\* C26: a call of get_cached_parts_search changes the timestamp and the
\* payload of no entry; a hit and a miss leave the persisted store as it
\* was; a read of an expired key removes that key and leaves every other
\* entry, expired or not, in its place.
C26_ReadLeavesOtherEntries ==
    [][ (last_op'.op = "get" /\ now' = now) =>
          IF IsExpiredIn(cache_file, last_op'.key, now)
          THEN /\ cache_file'.kind = "mapping"
               /\ cache_file'.entries =
                      SelectSeq(cache_file.entries,
                                LAMBDA e : e.key # last_op'.key)
          ELSE cache_file' = cache_file ]_vars

\* a read has removed its expired key from a store that still holds another
\* expired entry
C26_Witness ==
    /\ last_op.op = "get" /\ last_op.ret = "none" /\ ~last_op.raised
    /\ read_removed
    /\ cache_file.kind = "mapping"
    /\ ~HasKey(cache_file.entries, last_op.key)
    /\ \E i \in DOMAIN cache_file.entries :
         IsExpiredIn(cache_file, cache_file.entries[i].key, now)

\* C7: whatever the cache file holds, get_cached_parts_search and
\* cache_parts_search do not raise.
C7_CacheCallsNeverRaise == ~last_op.raised

-----------------------------------------------------------------------------
(* The formatter's specification: every text made of at most MaxSegs        *)
(* fragments is formatted.                                                 *)

MaxSegs == 4

Fragments ==
    { <<"a">>, <<"nl">>, <<"sp">>,
      <<"-", "sp", "a">>,
      <<"1", "VS", "KC", "sp", "a">>,
      <<"H", "sp", "a">>,
      <<"[WARNING]">>, <<"[/WARNING]">>, <<"[warning]">>,
      <<"</ul>">> }

Texts == { Concat(ss) : ss \in UNION { [1..n -> Fragments] : n \in 0..MaxSegs } }

\* The texts of the formatting tests: a single-line callout, an emoji step,
\* two bullets and a plain line; a bullet whose text carries the arrow.
CalloutStepListPlain ==
    <<"[WARNING]", "a", "[/WARNING]", "nl", "1", "VS", "KC", "sp", "a", "nl",
      "-", "sp", "a", "nl", "tri", "VS", "sp", "a", "nl", "a">>

\* The section headers of the formatting tests (lines 45-49), the last
\* written with U+FE0F; and such a header after a bullet.
SectionHeaders ==
    <<"H", "sp", "a", "nl", "H", "sp", "a", "nl", "W", "VS", "sp", "a">>

ScenarioTexts ==
    {CalloutStepListPlain, <<"-", "sp", "tri", "VS", "sp", "a">>, SectionHeaders,
     <<"-", "sp", "a", "nl", "W", "VS", "sp", "a">>}

FmtInit ==
    /\ \/ text \in Texts \cup ScenarioTexts /\ text_is_none = FALSE
       \/ text = <<>> /\ text_is_none = TRUE
    /\ formatted_lines = <<>>
    /\ formatted_text = <<>>
    /\ formatted_twice = <<>>
    /\ fmt_pc = "input"
    /\ CacheIdle
    /\ RaceIdle
    /\ RestIdle
    /\ ChatIdle
    /\ EnvIdle
    /\ PromptIdle

\* format_message_content(text)
Format ==
    /\ fmt_pc = "input"
    /\ formatted_lines' = (IF falsy(text_is_none, text) THEN <<>> ELSE build_lines(text))
    /\ formatted_text' = format_message_content_of(text_is_none, text)
    /\ fmt_pc' = "done"
    /\ UNCHANGED <<text, text_is_none, formatted_twice, cacheVars, raceVars, chatVars,
                   envVars, promptVars, restVars>>

\* format_message_content(format_message_content(text))
FormatAgain ==
    /\ fmt_pc = "done"
    /\ formatted_twice' = format_message_content(formatted_text)
    /\ fmt_pc' = "twice"
    /\ UNCHANGED <<text, text_is_none, formatted_lines, formatted_text, cacheVars, raceVars,
                   chatVars, envVars, promptVars, restVars>>

FmtNext == Format \/ FormatAgain

SpecFormat == FmtInit /\ [][FmtNext]_vars

-----------------------------------------------------------------------------
(* Properties of the formatter.                                            *)

\* The blocks of formatted_lines that open and close a list, and its items.
IsUlOpen(b) == b = <<"<ul>">>
IsUlClose(b) == b = <<"</ul>">>
IsItem(b) == b # <<>> /\ Head(b) = "<li>"

\* Scanning the blocks with the flag "a list is open": a list opens only when
\* none is open, closes only when one is open, an item stands only inside a
\* list, any other block only outside one, and no list is open at the end.
RECURSIVE UlBalanced(_, _)
UlBalanced(blocks, open) ==
    IF blocks = <<>> THEN ~open
    ELSE LET b == Head(blocks)
         IN  CASE IsUlOpen(b) -> ~open /\ UlBalanced(Tail(blocks), TRUE)
               [] IsUlClose(b) -> open /\ UlBalanced(Tail(blocks), FALSE)
               [] IsItem(b) -> open /\ UlBalanced(Tail(blocks), TRUE)
               [] OTHER -> ~open /\ UlBalanced(Tail(blocks), FALSE)

\* C1: for every text format_message_content returns, and the list markers
\* it writes are balanced: a list is opened only when none is open, every
\* opened list is closed before the next non-bullet block or the end of the
\* output, and no list is closed when none is open.
C1_ListMarkersBalanced ==
    fmt_pc = "done" => UlBalanced(formatted_lines, FALSE)

\* Two lists were opened: one closed by a later block, one by the end.
C1_Witness ==
    /\ fmt_pc = "done"
    /\ Cardinality({i \in DOMAIN formatted_lines : IsUlOpen(formatted_lines[i])}) >= 2
    /\ IsUlClose(formatted_lines[Len(formatted_lines)])

\* The markup tokens the formatter writes, by role.
DivOpens ==
    {"<div.emoji-step>", "<div.section-header>", "<div.bold-header>",
     "<div.warning-box>", "<div.tip-box>", "<div.cost-box>"}
CalloutOpens == {"<div.warning-box>", "<div.tip-box>", "<div.cost-box>"}
Openers == {"<p>", "<ul>", "<li>"} \cup DivOpens
Closers == {"</p>", "</ul>", "</li>", "</div>"}

Closes(c, o) ==
    \/ c = "</p>" /\ o = "<p>"
    \/ c = "</ul>" /\ o = "<ul>"
    \/ c = "</li>" /\ o = "<li>"
    \/ c = "</div>" /\ o \in DivOpens

\* Every closing marker closes the innermost open element, and nothing is
\* left open at the end.
RECURSIVE WellNested(_, _)
WellNested(s, stack) ==
    IF s = <<>> THEN stack = <<>>
    ELSE IF Head(s) \in Openers THEN WellNested(Tail(s), <<Head(s)>> \o stack)
    ELSE IF Head(s) \in Closers THEN
        /\ stack # <<>>
        /\ Closes(Head(s), Head(stack))
        /\ WellNested(Tail(s), Tail(stack))
    ELSE WellNested(Tail(s), stack)

Count(s, S) == Cardinality({i \in DOMAIN s : s[i] \in S})

AllTags ==
    {"[WARNING]", "[warning]", "[/WARNING]", "[/warning]", "[TIP]", "[/TIP]",
     "[COST]", "[/COST]"}

\* C2: a bracketed tag pair whose body spans one or several lines gives one
\* callout block whose opening and closing markers are properly nested with
\* the paragraph, list and item markers around them.
C2_CalloutProperlyNested ==
    (/\ fmt_pc = "done"
     /\ Count(text, AllTags) = 2
     /\ Count(text, Openers \cup Closers) = 0
     /\ Count(formatted_text, CalloutOpens) = 1)
        => WellNested(formatted_text, <<>>)

\* A one-line callout is nested properly (the part of C2 that the code meets).
C2_SingleLineNested ==
    (/\ fmt_pc = "done"
     /\ Count(text, Openers \cup Closers) = 0
     /\ Count(text, {"nl"}) = 0)
        => WellNested(formatted_text, <<>>)


\* ---------------------------------------------------------------------------
\* The chat endpoint and the session (chat, new_conversation)
\* ---------------------------------------------------------------------------

MAX_HISTORY == 20
PROMPT_WINDOW == 10
MaxExchanges == 12

\* A stored turn; the content of the user turn and of the assistant turn of
\* exchange n is tagged n.
Turn(role, n) == [role |-> role, content |-> n]

\* Python s[-n:]
LastN(s, n) == IF Len(s) > n THEN SubSeq(s, Len(s) - n + 1, Len(s)) ELSE s

\* Python s[:n]
FirstN(s, n) == IF Len(s) > n THEN SubSeq(s, 1, n) ELSE s

\* Request bodies: not parseable as JSON (absent, malformed, wrong content
\* type), JSON null, a JSON value that is not an object, an object without
\* "message", "message" empty, whitespace only, not a string, a real text.
Bodies == {"no_json", "json_null", "json_list", "no_message", "empty", "blank",
           "non_string", "text"}

\* What a text is about: neither Volvo nor parts, Volvo, or Volvo parts with
\* a part name that extract_part_name_from_query finds.
MsgKinds == {"plain", "volvo", "volvo_parts"}
ScraperOutcomes == {"found", "empty", "fails"}
LlmOutcomes == {"ok", "RateLimitError", "AuthenticationError", "APIConnectionError",
                "IndexError"}
\* response.choices[0].message.content: a string, or a list of content parts
StringReply == [kind |-> "str", text |-> <<"[WARNING]", "a", "[/WARNING]">>]
Replies == {StringReply, [kind |-> "list", text |-> <<>>]}

IsRateLimitError(o) == o = "RateLimitError"
IsAPIError(o) == o \in {"RateLimitError", "AuthenticationError", "APIConnectionError"}

\* request.get_json() followed by data.get('message', '').strip()
user_message_of(b) ==
    CASE b = "no_json"    -> [raised |-> TRUE, message |-> ""]
      [] b = "json_null"  -> [raised |-> TRUE, message |-> ""]
      [] b = "json_list"  -> [raised |-> TRUE, message |-> ""]
      [] b = "non_string" -> [raised |-> TRUE, message |-> ""]
      [] b = "no_message" -> [raised |-> FALSE, message |-> ""]
      [] b = "empty"      -> [raised |-> FALSE, message |-> ""]
      [] b = "blank"      -> [raised |-> FALSE, message |-> ""]
      [] OTHER            -> [raised |-> FALSE, message |-> "text"]

\* get_openai_client raises ValueError without the key
get_openai_client(key) == [raised |-> ~key]

\* ---- context assembly: get_postgres_vector_db, load_volvo_knowledge_base,
\* ---- get_volvo_context

\* What volvo_xc60_kb.json holds: nothing, something that cannot be read or
\* parsed, the JSON object {}, a knowledge base with every section, or JSON of
\* another shape (a non-empty list, or an object whose "vehicle" is null).
KBFiles == {"missing", "unloadable", "empty_object", "loaded", "bad_shape"}

\* What the environment answers during one call: create_postgres_vector_db
\* succeeds or raises, get_relevant_context returns text, returns nothing or
\* raises, and the knowledge-base file.
ContextEnvs == [init : {"ok", "fails"}, search : {"context", "empty", "raises"},
                kb : KBFiles]

\* A user message: its tag and the keyword tests the code makes on it.
UserMessage(n, volvo, maint, problem) ==
    [id |-> n, volvo |-> volvo, maint |-> maint, problem |-> problem]

get_postgres_vector_db(pa, db, init) ==
    IF ~pa THEN [handle |-> "None", db |-> db, calls |-> 0]
    ELSE IF db # "None" THEN [handle |-> db, db |-> db, calls |-> 0]
    ELSE IF init = "ok" THEN [handle |-> "db", db |-> "db", calls |-> 1]
    ELSE [handle |-> "None", db |-> "None", calls |-> 1]

load_volvo_knowledge_base(kb) ==
    IF kb \in {"missing", "unloadable"} THEN "None" ELSE kb

\* The sections of the local extraction, lines 496-534.
json_context(kb, msg) ==
    <<"VEHICLE", "KEY SPECIFICATIONS">>
        \o (IF msg.maint THEN <<"MAINTENANCE SCHEDULE">> ELSE <<>>)
        \o (IF msg.problem THEN <<"VOLVO DIAGNOSTIC TIPS">> ELSE <<>>)
        \o <<"COMMON VOLVO XC60 ISSUES">>

ContextResult(raised, context, db, calls) ==
    [raised |-> raised, context |-> context, db |-> db, calls |-> calls]

\* the local extraction, lines 489-534
json_fallback(msg, kbfile, db, calls) ==
    LET volvo_kb == load_volvo_knowledge_base(kbfile)
    IN  IF volvo_kb \in {"None", "empty_object"} THEN ContextResult(FALSE, <<>>, db, calls)
        ELSE IF volvo_kb = "bad_shape" THEN ContextResult(TRUE, <<>>, db, calls)
        ELSE ContextResult(FALSE, json_context(volvo_kb, msg), db, calls)

get_volvo_context_stale_handle(msg, pa, db, env) ==
    LET got == get_postgres_vector_db(pa, db, env.init)
        searched == got.handle # "None" /\ db = "None"
        calls == got.calls + (IF searched THEN 1 ELSE 0)
    IN  IF searched /\ env.search = "context"
        THEN ContextResult(FALSE, <<"VECTOR DB CONTEXT">>, got.db, calls)
        ELSE json_fallback(msg, env.kb, got.db, calls)

get_volvo_context(msg, pa, db, env) ==
    LET got == get_postgres_vector_db(pa, db, env.init)
        searched == got.handle # "None"
        calls == got.calls + (IF searched THEN 1 ELSE 0)
    IN  IF searched /\ env.search = "context"
        THEN ContextResult(FALSE, <<"VECTOR DB CONTEXT">>, got.db, calls)
        ELSE json_fallback(msg, env.kb, got.db, calls)

\* ---- create_car_repair_prompt

\* conversation_history is <<>> for None and <<h>> for the list h; parts_data
\* is "None", "empty" or "found".
PromptResult(ctx, messages) ==
    [raised |-> ctx.raised, context |-> ctx.context, db |-> ctx.db, calls |-> ctx.calls,
     messages |-> IF ctx.raised THEN <<>> ELSE messages]

system_message(ctx, parts_data) ==
    [role |-> "system",
     content |-> [base |-> "base_system_content", volvo_context |-> ctx.context,
                  parts |-> parts_data = "found"]]

prompt_context(msg, pa, db, env) ==
    IF msg.volvo THEN get_volvo_context(msg, pa, db, env)
    ELSE ContextResult(FALSE, <<>>, db, 0)

create_car_repair_prompt_user_first(msg, conversation_history, parts_data, pa, db, env) ==
    LET ctx == prompt_context(msg, pa, db, env)
        hist == IF conversation_history = <<>> THEN <<>> ELSE conversation_history[1]
    IN  PromptResult(ctx, <<system_message(ctx, parts_data)>>
                              \o <<Turn("user", msg.id)>> \o hist)

create_car_repair_prompt(msg, conversation_history, parts_data, pa, db, env) ==
    LET ctx == prompt_context(msg, pa, db, env)
        hist == IF conversation_history = <<>> THEN <<>> ELSE conversation_history[1]
    IN  PromptResult(ctx, <<system_message(ctx, parts_data)>>
                              \o hist \o <<Turn("user", msg.id)>>)

\* ---- chat

\* the automatic parts lookup of chat, lines 777-790
parts_lookup(r) ==
    IF r.msg = "volvo_parts"
    THEN [calls |-> 1, parts_data |-> IF r.scraper = "fails" THEN "None" ELSE r.scraper]
    ELSE [calls |-> 0, parts_data |-> "None"]

\* the message of a chat request, by what it is about
chat_message(n, r) ==
    UserMessage(n, r.msg # "plain", r.msg = "volvo_parts", FALSE)

\* A request that has done nothing yet.
ChatResult(history, sid, db) ==
    [status |-> 0, error |-> "-", formatted |-> <<>>, raw |-> NoReply, conv_id |-> <<>>,
     history |-> history, sid |-> sid, stored |-> FALSE, llm_calls |-> 0,
     scraper_calls |-> 0, vector_db_calls |-> 0, sent |-> <<>>, db |-> db]

Failed(res, status, error) == [res EXCEPT !.status = status, !.error = error]

trim_history_first(h) == IF Len(h) > MAX_HISTORY THEN FirstN(h, MAX_HISTORY) ELSE h

trim_history(h) == IF Len(h) > MAX_HISTORY THEN LastN(h, MAX_HISTORY) ELSE h

llm_error(o) ==
    IF IsRateLimitError(o) THEN [status |-> 429, error |-> "API rate limit exceeded"]
    ELSE IF IsAPIError(o) THEN [status |-> 500, error |-> "OpenAI API error"]
    ELSE [status |-> 500, error |-> "Failed to get AI response"]

\* format_message_content(raw_response): a reply that is not a string has no strip()
format_reply(reply) ==
    IF reply.kind = "list" THEN [raised |-> TRUE, out |-> <<>>]
    ELSE [raised |-> FALSE, out |-> format_message_content_of(reply.kind = "None", reply.text)]

\* lines 805-829
chat_store(res, n, r) ==
    LET kept == trim_history(res.history \o <<Turn("user", n), Turn("assistant", n)>>)
        cid == IF res.sid = <<>> THEN <<n>> ELSE res.sid
    IN  IF format_reply(r.reply).raised
        THEN Failed(res, 500, "Failed to get AI response")
        ELSE [res EXCEPT !.status = 200, !.formatted = format_reply(r.reply).out,
                         !.raw = r.reply, !.conv_id = cid, !.history = kept, !.sid = cid,
                         !.stored = TRUE]

chat_llm_append_first(res, n, r, messages) ==
    LET called == [res EXCEPT !.llm_calls = 1, !.sent = messages]
    IN  IF r.llm = "ok" THEN chat_store(called, n, r)
        ELSE [Failed(called, llm_error(r.llm).status, llm_error(r.llm).error)
                 EXCEPT !.history = Append(res.history, Turn("user", n))]

\* the LLM call, the session update and the three handlers around them
chat_llm(res, n, r, messages) ==
    LET called == [res EXCEPT !.llm_calls = 1, !.sent = messages]
    IN  IF r.llm = "ok" THEN chat_store(called, n, r)
        ELSE Failed(called, llm_error(r.llm).status, llm_error(r.llm).error)

\* lines 776-836: the parts lookup, the prompt, the LLM call
\* lines 776-836 with the whole stored history passed to the prompt
chat_answer_whole_history(res, n, r, pa) ==
    LET lookup == parts_lookup(r)
        prompt == create_car_repair_prompt(chat_message(n, r), <<res.history>>,
                                           lookup.parts_data, pa, res.db, r.env)
        looked == [res EXCEPT !.scraper_calls = lookup.calls,
                              !.vector_db_calls = prompt.calls, !.db = prompt.db]
    IN  IF prompt.raised THEN Failed(looked, 500, "Unexpected error")
        ELSE chat_llm(looked, n, r, prompt.messages)

chat_answer(res, n, r, pa) ==
    LET lookup == parts_lookup(r)
        prompt == create_car_repair_prompt(chat_message(n, r),
                                           <<LastN(res.history, PROMPT_WINDOW)>>,
                                           lookup.parts_data, pa, res.db, r.env)
        looked == [res EXCEPT !.scraper_calls = lookup.calls,
                              !.vector_db_calls = prompt.calls, !.db = prompt.db]
    IN  IF prompt.raised THEN Failed(looked, 500, "Unexpected error")
        ELSE chat_llm(looked, n, r, prompt.messages)

chat_lookup_before_client(history, sid, key, n, r, pa, db) ==
    LET um == user_message_of(r.body)
        res == ChatResult(history, sid, db)
        looked == [res EXCEPT !.scraper_calls = parts_lookup(r).calls]
    IN IF um.raised THEN Failed(res, 500, "Unexpected error")
       ELSE IF um.message = "" THEN Failed(res, 400, "Message cannot be empty")
       ELSE IF get_openai_client(key).raised
       THEN Failed(looked, 500, "OPENAI_API_KEY environment variable is required")
       ELSE chat_answer(res, n, r, pa)

chat(history, sid, key, n, r, pa, db) ==
    LET um == user_message_of(r.body)
        res == ChatResult(history, sid, db)
    IN IF um.raised THEN Failed(res, 500, "Unexpected error")
       ELSE IF um.message = "" THEN Failed(res, 400, "Message cannot be empty")
       ELSE IF get_openai_client(key).raised
       THEN Failed(res, 500, "OPENAI_API_KEY environment variable is required")
       ELSE chat_answer(res, n, r, pa)

\* ---- new_conversation: both session keys are popped

new_conversation_keeps_id(history, sid) == [history |-> <<>>, sid |-> sid]

new_conversation(history, sid) == [history |-> <<>>, sid |-> <<>>]

\* ---- status, lines 1080-1148

\* lines 1100-1126: the database check made once the test call has succeeded
status_db_check(res, pa, r) ==
    LET got == get_postgres_vector_db(pa, res.db, r.env.init)
        stats == IF got.handle # "None" THEN 1 ELSE 0
    IN  [res EXCEPT !.status = 200, !.db = got.db, !.vector_db_calls = got.calls + stats]

status(history, sid, key, r, pa, db) ==
    LET res == ChatResult(history, sid, db)
        called == [res EXCEPT !.llm_calls = 1]
    IN  IF ~key THEN Failed(res, 400, "Missing environment variables")
        ELSE IF r.llm = "AuthenticationError" THEN Failed(called, 401, "Invalid OpenAI API key")
        ELSE IF IsRateLimitError(r.llm) THEN Failed(called, 200, "API rate limit reached")
        ELSE IF r.llm # "ok" THEN Failed(called, 500, "Failed to connect to OpenAI API")
        ELSE status_db_check(called, pa, r)

\* ---- the requests a client can send and the outcomes the environment can give

\* An input the handler does not consult is "-".  The failure kinds of the LLM
\* are crossed with the plain messages, the outcomes of the two enrichments
\* with one success and one failure of the LLM.
ChatContextEnvs ==
    {[init |-> "ok", search |-> "context", kb |-> "loaded"],
     [init |-> "ok", search |-> "raises", kb |-> "loaded"],
     [init |-> "fails", search |-> "empty", kb |-> "missing"],
     [init |-> "ok", search |-> "empty", kb |-> "bad_shape"]}

ChatPartsEnvs ==
    {[init |-> "ok", search |-> "context", kb |-> "loaded"],
     [init |-> "ok", search |-> "empty", kb |-> "bad_shape"]}

EnrichedOutcomes == {<<"ok", StringReply>>, <<"RateLimitError", NoReply>>}

ChatRequests ==
    {[NoReq EXCEPT !.endpoint = "chat", !.body = b] : b \in Bodies \ {"text"}}
    \cup
    {[NoReq EXCEPT !.endpoint = "chat", !.body = "text", !.msg = "plain", !.llm = x[1],
                   !.reply = x[2]] :
        x \in ({"ok"} \X Replies) \cup ((LlmOutcomes \ {"ok"}) \X {NoReply})}
    \cup
    {[NoReq EXCEPT !.endpoint = "chat", !.body = "text", !.msg = "volvo", !.llm = x[1],
                   !.reply = x[2], !.env = e] :
        x \in EnrichedOutcomes, e \in ChatContextEnvs}
    \cup
    {[NoReq EXCEPT !.endpoint = "chat", !.body = "text", !.msg = "volvo_parts",
                   !.scraper = y[1], !.llm = x[1], !.reply = x[2], !.env = y[2]] :
        x \in EnrichedOutcomes, y \in ScraperOutcomes \X ChatPartsEnvs}

StatusRequests ==
    {[NoReq EXCEPT !.endpoint = "status", !.llm = o] : o \in LlmOutcomes \ {"ok", "IndexError"}}
    \cup
    {[NoReq EXCEPT !.endpoint = "status", !.llm = "ok", !.env = [NoEnv EXCEPT !.init = i]] :
        i \in {"ok", "fails"}}

ChatInit ==
    /\ api_key_set \in BOOLEAN
    /\ session_history = <<>>
    /\ session_conv_id = <<>>
    /\ exchanges_done = 0
    /\ last_req = NoReq
    /\ response = NoResponse
    /\ llm_calls = 0
    /\ scraper_calls = 0
    /\ sent_messages = <<>>
    /\ exchange_log = <<>>
    /\ after_reset = FALSE
    /\ vector_db_calls = 0
    /\ postgres_available \in BOOLEAN
    /\ postgres_vector_db = "None"
    /\ FmtIdle
    /\ CacheIdle
    /\ RaceIdle
    /\ RestIdle
    /\ PromptIdle

Answer(r, out) ==
    /\ last_req' = r
    /\ response' = [status |-> out.status, error |-> out.error,
                    formatted |-> out.formatted, raw |-> out.raw, conv_id |-> out.conv_id]
    /\ session_history' = out.history
    /\ session_conv_id' = out.sid
    /\ llm_calls' = out.llm_calls
    /\ scraper_calls' = out.scraper_calls
    /\ vector_db_calls' = out.vector_db_calls
    /\ sent_messages' = out.sent
    /\ postgres_vector_db' = out.db

\* POST /api/chat
Chat ==
    /\ exchanges_done < MaxExchanges
    /\ \E r \in ChatRequests :
         LET n == exchanges_done + 1
             out == chat(session_history, session_conv_id, api_key_set, n, r,
                         postgres_available, postgres_vector_db)
         IN /\ Answer(r, out)
            /\ exchanges_done' = IF out.stored THEN n ELSE exchanges_done
            /\ exchange_log' = IF out.stored THEN Append(exchange_log, n) ELSE exchange_log
            /\ after_reset' = (after_reset /\ ~out.stored)
    /\ UNCHANGED <<api_key_set, postgres_available, fmtVars, cacheVars, raceVars, promptVars, restVars>>

\* POST /api/new-conversation
NewConversation ==
    /\ LET out == new_conversation(session_history, session_conv_id)
       IN  /\ session_history' = out.history
           /\ session_conv_id' = out.sid
    /\ exchange_log' = <<>>
    /\ after_reset' = TRUE
    /\ last_req' = [NoReq EXCEPT !.endpoint = "new-conversation"]
    /\ response' = [NoResponse EXCEPT !.status = 200]
    /\ llm_calls' = 0
    /\ scraper_calls' = 0
    /\ vector_db_calls' = 0
    /\ sent_messages' = <<>>
    /\ UNCHANGED <<api_key_set, exchanges_done, envVars, fmtVars, cacheVars, raceVars,
                   promptVars, restVars>>

\* GET /api/status
Status ==
    /\ \E r \in StatusRequests :
         Answer(r, status(session_history, session_conv_id, api_key_set, r,
                          postgres_available, postgres_vector_db))
    /\ UNCHANGED <<api_key_set, postgres_available, exchanges_done, exchange_log,
                   after_reset, fmtVars, cacheVars, raceVars, promptVars, restVars>>

ChatNext == Chat \/ NewConversation \/ Status

SpecChat == ChatInit /\ [][ChatNext]_vars

\* ---- properties of the chat endpoint

\* the turns of a sequence of exchanges, user then assistant, in order
TurnsOf(log) ==
    [i \in 1..(2 * Len(log)) |->
        Turn(IF i % 2 = 1 THEN "user" ELSE "assistant", log[(i + 1) \div 2])]

\* C3: whatever chat and new-conversation requests a session has made, the
\* stored history has at most 20 turns, an even number of them, alternating
\* user then assistant, and is exactly the most recent exchanges stored since
\* the last reset, in their order: the last 10 once more than 10 were stored.
C3_HistoryIsRecentExchanges ==
    /\ Len(session_history) <= MAX_HISTORY
    /\ Len(session_history) % 2 = 0
    /\ \A i \in 1..Len(session_history) :
         session_history[i].role = IF i % 2 = 1 THEN "user" ELSE "assistant"
    /\ Len(session_history) = 2 * Min({Len(exchange_log), MAX_HISTORY \div 2})
    /\ session_history = TurnsOf(LastN(exchange_log, Len(session_history) \div 2))

\* the history overflowed: more than 10 exchanges were stored and 20 turns are kept
C3_Witness ==
    /\ Len(exchange_log) > MAX_HISTORY \div 2
    /\ Len(session_history) = MAX_HISTORY
    /\ session_history[1].content > exchange_log[1]

\* a chat request that sent its prompt to the LLM, whose call failed
LlmCallFailed(r, sent) == r.endpoint = "chat" /\ sent # <<>> /\ r.llm # "ok"

\* C8: a chat request whose LLM call fails returns an error response, has
\* called the LLM exactly once, and leaves the session's conversation history
\* and conversation id as they were before the request.
C8_FailedLlmCallLeavesSession ==
    [][LlmCallFailed(last_req', sent_messages') =>
          /\ response'.status >= 400
          /\ response'.error # "-"
          /\ llm_calls' = 1
          /\ session_history' = session_history
          /\ session_conv_id' = session_conv_id]_vars

\* a failed LLM call in a session that already holds a conversation
C8_Witness ==
    /\ LlmCallFailed(last_req, sent_messages)
    /\ llm_calls = 1
    /\ response.status >= 400
    /\ session_history # <<>>
    /\ session_conv_id # <<>>

\* C9: a chat request whose message is empty or whitespace-only, or whose body
\* is missing or malformed (no JSON object, no usable message field), gets a
\* 400-class response.
C9_BadBodyRejectedWith400 ==
    (last_req.endpoint = "chat" /\ last_req.body \in Bodies \ {"text"})
        => response.status \in 400..499

\* C10: on the chat endpoint an authentication failure of the LLM gives 401,
\* a rate-limit failure 429, any other upstream failure 500, each with a JSON
\* error object.
C10_UpstreamFailureStatus ==
    LlmCallFailed(last_req, sent_messages) =>
        /\ response.error # "-"
        /\ response.status = CASE last_req.llm = "AuthenticationError" -> 401
                               [] last_req.llm = "RateLimitError" -> 429
                               [] OTHER -> 500


\* C11: when OPENAI_API_KEY is missing, a chat request and a status request
\* each return an error response, and no LLM call, no parts search and no
\* vector-database call is made during the request.
C11_NoExternalCallWithoutKey ==
    (~api_key_set /\ last_req.endpoint \in {"chat", "status"}) =>
        /\ response.status >= 400
        /\ response.error # "-"
        /\ llm_calls = 0
        /\ scraper_calls = 0
        /\ vector_db_calls = 0

\* without the key, a chat message that would start the parts lookup and the
\* context search is refused
C11_Witness ==
    /\ ~api_key_set
    /\ postgres_available
    /\ last_req.endpoint = "chat"
    /\ last_req.msg = "volvo_parts"
    /\ response.status = 500

\* the parts lookup of the last chat request raised
PartsLookupFailed == last_req.msg = "volvo_parts" /\ last_req.scraper = "fails"

\* the vector database was searched during the last chat request
SearchRan == postgres_available /\ postgres_vector_db = "db"

\* a step of the context assembly of the last chat request failed: the vector
\* database could not be initialised, its search raised, or the knowledge
\* base that the local extraction read could not be loaded or used
ContextAssemblyFailed ==
    /\ last_req.msg \in {"volvo", "volvo_parts"}
    /\ \/ postgres_available /\ postgres_vector_db = "None"
       \/ SearchRan /\ last_req.env.search = "raises"
       \/ /\ ~(SearchRan /\ last_req.env.search = "context")
          /\ last_req.env.kb \in {"unloadable", "bad_shape"}

\* C12: a chat request one of whose optional enrichment steps fails (the
\* parts lookup raises, or context assembly fails) still calls the LLM, with
\* a prompt that omits the failed enrichment.
C12_EnrichmentFailureNeverFailsRequest ==
    (/\ last_req.endpoint = "chat" /\ last_req.body = "text" /\ api_key_set
     /\ PartsLookupFailed \/ ContextAssemblyFailed)
        => /\ llm_calls = 1
           /\ sent_messages # <<>>
           /\ PartsLookupFailed => ~sent_messages[1].content.parts

\* C14: when formatting the model's reply raises, the chat request still
\* succeeds and returns the raw, unformatted text as its response.
C14_FormatFailureReturnsRawText ==
    (/\ last_req.endpoint = "chat" /\ llm_calls = 1 /\ last_req.llm = "ok"
     /\ format_reply(last_req.reply).raised)
        => /\ response.status = 200
           /\ response.raw = last_req.reply

\* C15: a new-conversation request leaves the session without history and
\* without conversation id, whatever it held; the session stays so until the
\* next successful chat request, which sends a prompt of the system turn and
\* the user turn only and assigns a conversation id.
C15_ResetThenFreshConversation ==
    [][/\ last_req'.endpoint = "new-conversation" => after_reset'
       /\ after_reset' => (session_history' = <<>> /\ session_conv_id' = <<>>)
       /\ (after_reset /\ last_req'.endpoint = "chat" /\ response'.status = 200)
             => /\ Len(sent_messages') = 2
                /\ sent_messages'[2] = Turn("user", exchanges_done')
                /\ session_conv_id' # <<>>
                /\ response'.conv_id = session_conv_id'
                /\ ~after_reset']_vars

\* a conversation was reset and the next successful chat got a new id
C15_Witness ==
    /\ last_req.endpoint = "chat"
    /\ response.status = 200
    /\ Len(exchange_log) = 1
    /\ exchanges_done > 1
    /\ session_conv_id = <<exchanges_done>>


-----------------------------------------------------------------------------
(* create_car_repair_prompt called twice with the same arguments, the      *)
(* environment answering each call as it likes.                            *)

PromptMessages ==
    {UserMessage(1, FALSE, FALSE, FALSE), UserMessage(1, TRUE, FALSE, FALSE),
     UserMessage(1, TRUE, TRUE, TRUE)}

\* no history (None), an empty one, one exchange, three turns in another order
PromptHistories ==
    {<<>>, <<<<>>>>, <<<<Turn("user", 7), Turn("assistant", 7)>>>>,
     <<<<Turn("assistant", 8), Turn("user", 9), Turn("user", 7)>>>>}

PartsData == {"None", "empty", "found"}

PromptArgs == [msg : PromptMessages, history : PromptHistories, parts : PartsData]

PromptInit ==
    /\ prompt_args \in PromptArgs
    /\ prompt_pc = "ready"
    /\ prompt_first = NoCall
    /\ prompt_second = NoCall
    /\ postgres_available \in BOOLEAN
    /\ postgres_vector_db = "None"
    /\ FmtIdle
    /\ CacheIdle
    /\ RaceIdle
    /\ RestIdle
    /\ ChatIdle

CallOf(env, out) ==
    [env |-> env, raised |-> out.raised, context |-> out.context, messages |-> out.messages]

\* the environments that can answer a call: none is consulted for a message
\* that is not about Volvo
EnvsFor(msg) == IF msg.volvo THEN ContextEnvs ELSE {NoEnv}

PromptCall ==
    /\ prompt_pc \in {"ready", "once"}
    /\ \E env \in EnvsFor(prompt_args.msg) :
         LET out == create_car_repair_prompt(prompt_args.msg, prompt_args.history,
                                             prompt_args.parts, postgres_available,
                                             postgres_vector_db, env)
         IN  /\ IF prompt_pc = "ready"
                THEN prompt_first' = CallOf(env, out) /\ UNCHANGED prompt_second
                ELSE prompt_second' = CallOf(env, out) /\ UNCHANGED prompt_first
             /\ postgres_vector_db' = out.db
    /\ prompt_pc' = IF prompt_pc = "ready" THEN "once" ELSE "twice"
    /\ UNCHANGED <<prompt_args, postgres_available, fmtVars, cacheVars, raceVars, chatVars,
                   restVars>>

PromptNext == PromptCall

SpecPrompt == PromptInit /\ [][PromptNext]_vars

\* C29: the messages a chat request passes to the LLM are the system turn,
\* the 10 most recent turns of the stored history in their order (all of
\* them when fewer are stored), and the new user turn: never more than 12.
C29_PromptHoldsLastTenTurns ==
    [][ (last_req'.endpoint = "chat" /\ sent_messages' # <<>>) =>
          LET stored == session_history
              kept == IF Len(stored) <= 10 THEN stored
                      ELSE SubSeq(stored, Len(stored) - 9, Len(stored))
              sent == sent_messages'
          IN  /\ Len(sent) = Len(kept) + 2
              /\ Len(sent) <= 12
              /\ sent[1].role = "system"
              /\ SubSeq(sent, 2, Len(sent) - 1) = kept
              /\ sent[Len(sent)].role = "user"
              /\ sent[Len(sent)] \notin {stored[i] : i \in DOMAIN stored} ]_vars

\* twelve messages were sent while the session stores twenty turns
C29_Witness ==
    /\ last_req.endpoint = "chat"
    /\ Len(sent_messages) = 12
    /\ Len(session_history) = MAX_HISTORY
    /\ Len(exchange_log) > 10

\* ---- properties of the prompt and of the context assembly

\* the calls made so far
CallsMade ==
    CASE prompt_pc = "once" -> {prompt_first}
      [] prompt_pc = "twice" -> {prompt_first, prompt_second}
      [] OTHER -> {}

\* the vector database gave the context of the call
FromVectorDb(c) == c.context = <<"VECTOR DB CONTEXT">>

\* C13: get_volvo_context never raises; when the vector database is
\* unavailable, cannot be initialised, raises or returns nothing, the local
\* extraction gives the context, and it gives the empty string when the
\* knowledge-base file is missing or cannot be loaded.
C13_ContextNeverRaises ==
    prompt_args.msg.volvo =>
        \A c \in CallsMade :
            /\ ~c.raised
            /\ (~FromVectorDb(c) /\ c.env.kb \in {"missing", "unloadable"}) => c.context = <<>>
            /\ (~FromVectorDb(c) /\ c.env.kb = "loaded") =>
                   c.context = json_context("loaded", prompt_args.msg)

\* the history argument as a list of turns
HistoryTurns(h) == IF h = <<>> THEN <<>> ELSE h[1]

\* C16: the list create_car_repair_prompt returns has len(history) + 2 turns:
\* one system turn with content, the history turns as supplied and in their
\* order, and last the user turn of the message; without history (None or
\* empty) it is the system turn and the user turn.
C16_PromptShape ==
    \A c \in CallsMade :
        ~c.raised =>
            LET h == HistoryTurns(prompt_args.history)
                m == c.messages
            IN  /\ Len(m) = Len(h) + 2
                /\ m[1].role = "system"
                /\ m[1].content.base = "base_system_content"
                /\ \A i \in 1..Len(h) : m[i + 1] = h[i]
                /\ m[Len(m)] = Turn("user", prompt_args.msg.id)
                /\ \A i \in 2..Len(m) - 1 : m[i].role # "system"

\* a prompt was built around a three-turn history
C16_Witness ==
    /\ prompt_pc = "once"
    /\ ~prompt_first.raised
    /\ Len(HistoryTurns(prompt_args.history)) = 3
    /\ Len(prompt_first.messages) = 5

-----------------------------------------------------------------------------
(* Further properties of the formatter.                                    *)

BracketTags ==
    {"[WARNING]", "[warning]", "[/WARNING]", "[/warning]", "[TIP]", "[/TIP]",
     "[COST]", "[/COST]"}

\* C18: on a text free of bracket tags format_message_content is idempotent:
\* applied to its own output it returns that output.
C18_FormatIdempotent ==
    (fmt_pc = "twice" /\ ~text_is_none /\ \A i \in DOMAIN text : text[i] \notin BracketTags)
        => formatted_twice = formatted_text

\* C19: for an argument that is absent, empty or made only of whitespace and
\* line breaks, format_message_content returns the empty string.
C19_BlankInputEmptyOutput ==
    (fmt_pc # "input" /\ (text_is_none \/ \A i \in DOMAIN text : IsWs(text[i])))
        => formatted_text = <<>>

\* blanks around and between line breaks were formatted to the empty string
C19_Witness ==
    /\ fmt_pc = "done"
    /\ Len(text) >= 3
    /\ \A i \in DOMAIN text : IsWs(text[i])
    /\ \E i, j \in DOMAIN text : text[i] = "nl" /\ text[j] = "sp"
    /\ formatted_text = <<>>

\* the non-blank lines of a text, stripped
IsNonBlank(l) == strip(l) # <<>>
NonBlankLines(t) ==
    LET ls == SelectSeq(split_lines(strip(t)), IsNonBlank)
    IN  [i \in 1..Len(ls) |-> strip(ls[i])]

\* the blocks that stand for a line: all but the list markers and the breaks
IsLineBlock(b) == ~IsUlOpen(b) /\ ~IsUlClose(b) /\ b # <<"<br>">>
LineBlocks(blocks) == SelectSeq(blocks, IsLineBlock)

\* what a line is, by how it starts, for lines without "." and ":"
ExpectedKind(l) ==
    IF Len(l) >= 5 /\ SubSeq(l, 1, 4) = <<"1", "VS", "KC", "sp">> THEN "step"
    ELSE IF Len(l) >= 3 /\ l[1] = "H" /\ l[2] = "sp" THEN "header"
    ELSE IF Len(l) >= 3 /\ l[1] = "-" /\ l[2] = "sp" THEN "item"
    ELSE IF Len(l) >= 4 /\ SubSeq(l, 1, 3) = <<"tri", "VS", "sp">> THEN "item"
    ELSE "text"

BlockKind(b) ==
    CASE Head(b) = "<div.emoji-step>" -> "step"
      [] Head(b) = "<div.section-header>" -> "header"
      [] Head(b) = "<li>" -> "item"
      [] OTHER -> "text"

IsStepLine(l) == Len(l) >= 5 /\ SubSeq(l, 1, 3) = <<"1", "VS", "KC">> /\ IsWs(l[4])

\* a line that starts with a header emoji as it is written in the pattern of
\* line 299, with U+FE0F where the pattern has it, whitespace and text
IsHeaderLine(l) ==
    \/ Len(l) >= 3 /\ l[1] = "H" /\ IsWs(l[2])
    \/ Len(l) >= 4 /\ l[1] = "W" /\ l[2] = "VS" /\ IsWs(l[3])

\* C25: a line that starts with a step marker, or with a recognised header
\* emoji, followed by whitespace and text is emitted as a step block or as a
\* section-header block, and no list is open where that block stands.
C25_StepAndHeaderBlocks ==
    (fmt_pc # "input" /\ ~text_is_none) =>
        LET ls == NonBlankLines(text)
            bs == LineBlocks(formatted_lines)
        IN  /\ \A i \in 1..Len(ls) :
                 /\ IsStepLine(ls[i]) => (i <= Len(bs) /\ BlockKind(bs[i]) = "step")
                 /\ IsHeaderLine(ls[i]) => (i <= Len(bs) /\ BlockKind(bs[i]) = "header")
            /\ \A k \in 2..Len(formatted_lines) :
                 BlockKind(formatted_lines[k]) \in {"step", "header"}
                     => (~IsItem(formatted_lines[k - 1]) /\ ~IsUlOpen(formatted_lines[k - 1]))

-----------------------------------------------------------------------------
(* The two query functions applied to one user message, as chat applies    *)
(* them at lines 778 and 782.                                              *)

\* the longest query, in phrases
MaxPhrases == 3

QueryPhrases ==
    { <<"h", "o", "w", " ", "m", "u", "c", "h", " ", "f", "o", "r", " ", "a", "n", " ">>,
      <<"c", "o", "s", "t">>,
      <<"P", "r", "i", "c", "e", " ", "o", "f", " ">>,
      <<"n", "e", "e", "d", " ", "a", " ", "n", "e", "w", " ">>,
      <<"N", "E", "E", "D", " ", "A", " ", "N", "E", "W", " ">>,
      <<"a", "l", "t", "e", "r", "n", "a", "t", "o", "r">>,
      <<"A", "l", "t", "e", "r", "n", "a", "t", "o", "r">>,
      <<"c", "o", "m", "p", "r", "e", "s", "s", "o", "r">>,
      <<"t", "i", "r", "e">>,
      <<"s", "t", "e", "e", "r", "i", "n", "g", " ", "w", "h", "e", "e", "l">>,
      <<"m", "u", "f", "f", "l", "e", "r">>,
      <<"h", "e", "l", "l", "o", " ", "t", "h", "e", "r", "e">>,
      <<" ">>,
      <<"m", "o", "t", "o", "r">>,
      <<"B", "U", "Y">>,
      <<"e", "n">> }

RECURSIVE QueriesOf(_)
QueriesOf(n) ==
    IF n = 0 THEN {<<>>}
    ELSE LET shorter == QueriesOf(n - 1)
         IN  shorter \cup {q \o p : q \in shorter, p \in QueryPhrases}

Queries == QueriesOf(MaxPhrases)

QueryInit ==
    /\ query \in Queries
    /\ query_pc = "input"
    /\ is_parts = FALSE
    /\ extracted_part = NoPart
    /\ KbIdle
    /\ SearchIdle
    /\ ImportIdle
    /\ FmtIdle
    /\ CacheIdle
    /\ RaceIdle
    /\ ChatIdle
    /\ EnvIdle
    /\ PromptIdle

Classify ==
    /\ query_pc = "input"
    /\ is_parts' = is_parts_related_query(query)
    /\ extracted_part' = extract_part_name_from_query(query)
    /\ query_pc' = "done"
    /\ UNCHANGED <<query, kbVars, searchVars, importVars, fmtVars, cacheVars, raceVars, chatVars, envVars,
                   promptVars>>

QueryNext == Classify

SpecQuery == QueryInit /\ [][QueryNext]_vars

\* ---- properties of the query functions

\* str.upper(), to write a query in another letter case
upper(s) ==
    [i \in DOMAIN s |-> IF IsIn(LowerCase, s[i]) THEN UpperCase[IndexIn(LowerCase, s[i])]
                        ELSE s[i]]

\* the query with every letter lowered, read with no further conversion
Lowered(q) ==
    [i \in DOMAIN q |-> IF IsIn(UpperCase, q[i]) THEN LowerCase[IndexIn(UpperCase, q[i])]
                        ELSE q[i]]

HasIntentPhrase(q) == \E i \in DOMAIN parts_keywords : Contains(Lowered(q), parts_keywords[i])
HasCostWord(q) == \E i \in DOMAIN cost_words : Contains(Lowered(q), cost_words[i])
HasPartName(q) == \E i \in DOMAIN part_patterns : Contains(Lowered(q), part_patterns[i])

\* C21: is_parts_related_query is true exactly when the lowered query holds a
\* general-intent phrase, or a cost word together with a part name; it is
\* false when the query holds no keyword of either table; and the same query
\* in upper case, in lower case or as written gives the same answer.
C21_PartsRelatedExactly ==
    query_pc = "done" =>
        /\ is_parts = (HasIntentPhrase(query) \/ (HasCostWord(query) /\ HasPartName(query)))
        /\ (~HasIntentPhrase(query) /\ ~HasPartName(query)) => ~is_parts
        /\ is_parts = is_parts_related_query(upper(query))
        /\ is_parts = is_parts_related_query(Lowered(query))

\* a query written with capitals that is recognised by a cost word and a part
\* name alone
C21_Witness ==
    /\ query_pc = "done"
    /\ is_parts
    /\ query # Lowered(query)
    /\ ~HasIntentPhrase(query)
    /\ HasCostWord(query) /\ HasPartName(query)

TableNames == {extract_part_patterns[i].name : i \in DOMAIN extract_part_patterns}

PhraseOccurs(q, i) ==
    \E j \in DOMAIN extract_part_patterns[i].patterns :
        Contains(Lowered(q), extract_part_patterns[i].patterns[j])

NoTablePhrase(q) == \A i \in DOMAIN extract_part_patterns : ~PhraseOccurs(q, i)

\* C22 as stated: the result is none or a name of the table, the first entry
\* in table order with a phrase in the query, and none when no table phrase
\* occurs.
C22_NoneOrTableName ==
    query_pc = "done" =>
        /\ extracted_part.none \/ extracted_part.name \in TableNames
        /\ NoTablePhrase(query) => extracted_part.none
        /\ \A i \in DOMAIN extract_part_patterns :
             (PhraseOccurs(query, i) /\ \A k \in 1..(i - 1) : ~PhraseOccurs(query, k))
                 => extracted_part = PartNamed(extract_part_patterns[i].name)

\* the places of the lowered query where "need a new " is followed by a word
NeedANewPlaces(q) ==
    {i \in 1..(Len(q) - Len(NeedANew)) :
        /\ SubSeq(Lowered(q), i, i + Len(NeedANew) - 1) = NeedANew
        /\ IsWordChar(q[i + Len(NeedANew)])}

\* s is the whole word of q that starts at place i
IsWordAt(q, i, s) ==
    /\ s # <<>>
    /\ i + Len(s) - 1 <= Len(q)
    /\ SubSeq(Lowered(q), i, i + Len(s) - 1) = s
    /\ \A k \in DOMAIN s : IsWordChar(s[k])
    /\ (i + Len(s) <= Len(q)) => ~IsWordChar(q[i + Len(s)])

\* C22: the result is the name of the first table entry, in table order, one
\* of whose phrases occurs in the lowered query; when no table phrase occurs
\* it is the word that follows the first "need a new " of the query, and none
\* when there is no such word.
C22_TableNameOrWordAfterNeedANew ==
    query_pc = "done" =>
        /\ \A i \in DOMAIN extract_part_patterns :
             (PhraseOccurs(query, i) /\ \A k \in 1..(i - 1) : ~PhraseOccurs(query, k))
                 => extracted_part = PartNamed(extract_part_patterns[i].name)
        /\ (NoTablePhrase(query) /\ NeedANewPlaces(query) = {}) => extracted_part.none
        /\ (NoTablePhrase(query) /\ NeedANewPlaces(query) # {}) =>
             /\ ~extracted_part.none
             /\ IsWordAt(query, Min(NeedANewPlaces(query)) + Len(NeedANew), extracted_part.name)

\* a query that names a later table entry before an earlier one, answered
\* with the earlier entry
C22_Witness ==
    /\ query_pc = "done"
    /\ PhraseOccurs(query, 1) /\ PhraseOccurs(query, 11)
    /\ \E i \in DOMAIN query : \E j \in DOMAIN query :
         /\ i < j
         /\ SubSeq(Lowered(query), i, i + 3) = extract_part_patterns[11].name
         /\ SubSeq(Lowered(query), j, j + 9) = extract_part_patterns[1].name
    /\ extracted_part = PartNamed(extract_part_patterns[1].name)

\* C23: a query with a cost word and a part name that is_parts_related_query
\* recognises is answered with true and with the name of such a part, never
\* with none.
C23_CostAndPartGivesName ==
    (query_pc = "done" /\ HasCostWord(query) /\ HasPartName(query)) =>
        /\ is_parts
        /\ ~extracted_part.none
        /\ \E i \in DOMAIN part_patterns :
             /\ Contains(Lowered(query), part_patterns[i])
             /\ Contains(extracted_part.name, part_patterns[i])

-----------------------------------------------------------------------------
(* The local extraction of get_volvo_context, lines 496-534, on a          *)
(* knowledge base of the expected shape: a record of the lists the code    *)
(* reads, the keys of specifications.quick_reference, the                  *)
(* maintenance schedule, the diagnostic tips and the common issues, each   *)
(* entry named by its place in the file.                                   *)

\* maintenance_keywords, line 510.
maintenance_keywords ==
    << <<"o", "i", "l">>,
       <<"s", "e", "r", "v", "i", "c", "e">>,
       <<"m", "a", "i", "n", "t", "e", "n", "a", "n", "c", "e">>,
       <<"f", "i", "l", "t", "e", "r">>,
       <<"b", "r", "a", "k", "e">>,
       <<"t", "i", "r", "e">>,
       <<"p", "r", "e", "s", "s", "u", "r", "e">> >>

\* problem_keywords, line 519.
problem_keywords ==
    << <<"p", "r", "o", "b", "l", "e", "m">>,
       <<"i", "s", "s", "u", "e">>,
       <<"e", "r", "r", "o", "r">>,
       <<"w", "a", "r", "n", "i", "n", "g">>,
       <<"l", "i", "g", "h", "t">>,
       <<"f", "a", "u", "l", "t">>,
       <<"n", "o", "t", " ", "w", "o", "r", "k", "i", "n", "g">> >>

\* The slices [:5], [:4] and [:3] of lines 515, 524 and 531.
MAINTENANCE_LIMIT == 5
TIPS_LIMIT == 4
ISSUES_LIMIT == 3

\* a slice that keeps the whole list
slice_all(s, n) == s

\* s[:n]
slice(s, n) == SubSeq(s, 1, IF Len(s) < n THEN Len(s) ELSE n)

\* One element of context_parts: a title or an entry.  A title written with a
\* leading "\n" (lines 514, 523, 530) has gap TRUE.
Title(t, gap) == [kind |-> "title", text |-> t, gap |-> gap, entry |-> 0]
EntryLine(section, e) == [kind |-> "entry", text |-> section, gap |-> FALSE, entry |-> e]

EntryLines(section, entries) == [i \in DOMAIN entries |-> EntryLine(section, entries[i])]

\* Lines 496-534 for a knowledge base that load_volvo_knowledge_base returned.
local_extraction(kb, message) ==
    LET message_lower == lower(message)
        vehicle == <<Title("VEHICLE", FALSE)>>
        specs == <<Title("KEY SPECIFICATIONS", FALSE)>> \o EntryLines("spec", kb.specs)
        maintenance ==
            IF AnyIn(message_lower, maintenance_keywords) /\ kb.maintenance_schedule # <<>>
            THEN <<Title("MAINTENANCE SCHEDULE", TRUE)>>
                     \o EntryLines("maintenance", slice(kb.maintenance_schedule, MAINTENANCE_LIMIT))
            ELSE <<>>
        tips ==
            IF AnyIn(message_lower, problem_keywords) /\ kb.diagnostic_tips # <<>>
            THEN <<Title("VOLVO DIAGNOSTIC TIPS", TRUE)>>
                     \o EntryLines("tip", slice(kb.diagnostic_tips, TIPS_LIMIT))
            ELSE <<>>
        common_issues ==
            IF kb.common_issues # <<>>
            THEN <<Title("COMMON VOLVO XC60 ISSUES", TRUE)>>
                     \o EntryLines("issue", slice(kb.common_issues, ISSUES_LIMIT))
            ELSE <<>>
    IN  vehicle \o specs \o maintenance \o tips \o common_issues

\* the longest list of the knowledge base
MaxEntries == 6
\* the longest user message, in phrases
MaxMsgPhrases == 2

\* the entries 1..n of a list of the file, in the order of the file
ListOf(n) == [i \in 1..n |-> i]

KnowledgeBases ==
    [specs : {ListOf(0), ListOf(2)},
     maintenance_schedule : {ListOf(n) : n \in 0..MaxEntries},
     diagnostic_tips : {ListOf(n) : n \in 0..MaxEntries},
     common_issues : {ListOf(n) : n \in 0..MaxEntries}]

MessagePhrases ==
    { <<"v", "o", "l", "v", "o", " ">>,
      <<"o", "i", "l">>,
      <<"T", "i", "r", "e", " ">>,
      <<"w", "a", "r", "n", "i", "n", "g">>,
      <<"h", "e", "a", "d", "l", "i", "g", "h", "t">>,
      <<"h", "e", "l", "l", "o">>,
      <<"N", "O", "T", " ", "W", "O", "R", "K", "I", "N", "G">> }

RECURSIVE MessagesOf(_)
MessagesOf(n) ==
    IF n = 0 THEN {<<>>}
    ELSE LET shorter == MessagesOf(n - 1)
         IN  shorter \cup {m \o p : m \in shorter, p \in MessagePhrases}

ContextInit ==
    /\ knowledge_base \in KnowledgeBases
    /\ user_message \in MessagesOf(MaxMsgPhrases)
    /\ context_parts = <<>>
    /\ context_pc = "input"
    /\ QueryIdle
    /\ SearchIdle
    /\ ImportIdle
    /\ FmtIdle
    /\ CacheIdle
    /\ RaceIdle
    /\ ChatIdle
    /\ EnvIdle
    /\ PromptIdle

LocalExtraction ==
    /\ context_pc = "input"
    /\ context_parts' = local_extraction(knowledge_base, user_message)
    /\ context_pc' = "done"
    /\ UNCHANGED <<knowledge_base, user_message, queryVars, searchVars, importVars,
                   fmtVars, cacheVars, raceVars, chatVars,
                   envVars, promptVars>>

ContextNext == LocalExtraction

SpecContext == ContextInit /\ [][ContextNext]_vars

\* ---- properties of the local extraction

\* the places of the titles t in the context
TitlePlaces(ctx, t) == {i \in DOMAIN ctx : ctx[i].kind = "title" /\ ctx[i].text = t}

\* the entries of a section, in the order of the context
EntriesIn(ctx, section) ==
    LET F[i \in 0..Len(ctx)] ==
            IF i = 0 THEN <<>>
            ELSE IF ctx[i].kind = "entry" /\ ctx[i].text = section
                 THEN Append(F[i - 1], ctx[i].entry)
                 ELSE F[i - 1]
    IN  F[Len(ctx)]

MentionsAny(message, keywords) ==
    \E i \in DOMAIN keywords : Contains(Lowered(message), keywords[i])

SectionTitles ==
    <<"VEHICLE", "KEY SPECIFICATIONS", "MAINTENANCE SCHEDULE", "VOLVO DIAGNOSTIC TIPS",
      "COMMON VOLVO XC60 ISSUES">>

\* the first entries of a list of the file, at most n of them
FirstEntries(entries, n) == [i \in 1..(IF Len(entries) < n THEN Len(entries) ELSE n) |-> entries[i]]

\* C24: the context of the local extraction starts with the vehicle header;
\* it has the maintenance section exactly when a maintenance keyword occurs
\* in the message and the schedule is not empty, and the diagnostic tips
\* exactly when a problem keyword occurs and tips exist; it lists the first 5
\* maintenance items, 4 tips and 3 common issues of the file at most; and
\* the sections stand in the order vehicle, specifications, maintenance,
\* tips, common issues, each at most once.
C24_LocalExtractionSections ==
    context_pc = "done" =>
        /\ context_parts[1] = Title("VEHICLE", FALSE)
        /\ (TitlePlaces(context_parts, "MAINTENANCE SCHEDULE") # {})
               = (MentionsAny(user_message, maintenance_keywords)
                      /\ knowledge_base.maintenance_schedule # <<>>)
        /\ (TitlePlaces(context_parts, "VOLVO DIAGNOSTIC TIPS") # {})
               = (MentionsAny(user_message, problem_keywords)
                      /\ knowledge_base.diagnostic_tips # <<>>)
        /\ EntriesIn(context_parts, "maintenance")
               \in {<<>>, FirstEntries(knowledge_base.maintenance_schedule, 5)}
        /\ EntriesIn(context_parts, "tip") \in {<<>>, FirstEntries(knowledge_base.diagnostic_tips, 4)}
        /\ EntriesIn(context_parts, "issue") = FirstEntries(knowledge_base.common_issues, 3)
        /\ \A i \in DOMAIN context_parts : \A j \in DOMAIN context_parts :
             (i < j /\ context_parts[i].kind = "title" /\ context_parts[j].kind = "title")
                 => \E a \in DOMAIN SectionTitles : \E b \in DOMAIN SectionTitles :
                      /\ a < b
                      /\ context_parts[i].text = SectionTitles[a]
                      /\ context_parts[j].text = SectionTitles[b]

\* a message with a maintenance keyword and a problem keyword, on a file with
\* more entries than any limit: all five sections, cut to 5, 4 and 3 entries
C24_Witness ==
    /\ context_pc = "done"
    /\ Len(knowledge_base.maintenance_schedule) > 5
    /\ Len(knowledge_base.diagnostic_tips) > 4
    /\ Len(knowledge_base.common_issues) > 3
    /\ Len(EntriesIn(context_parts, "maintenance")) = 5
    /\ Len(EntriesIn(context_parts, "tip")) = 4
    /\ Len(EntriesIn(context_parts, "issue")) = 3
    /\ \A a \in DOMAIN SectionTitles : TitlePlaces(context_parts, SectionTitles[a]) # {}

-----------------------------------------------------------------------------
(* search_parts, lines 868-1002: the /api/search-parts endpoint over the   *)
(* parts-search cache.  The strings of a request are sequences of          *)
(* characters; None is a value of its own.                                 *)

RECURSIVE lstrip_blanks(_)
lstrip_blanks(s) == IF s # <<>> /\ Head(s) = " " THEN lstrip_blanks(Tail(s)) ELSE s

RECURSIVE rstrip_blanks(_)
rstrip_blanks(s) ==
    IF s # <<>> /\ s[Len(s)] = " " THEN rstrip_blanks(SubSeq(s, 1, Len(s) - 1)) ELSE s

\* str.strip() on the strings of a request
strip_blanks(s) == rstrip_blanks(lstrip_blanks(s))

\* Lines 930-936: '' for a missing part_name, the stripped string otherwise.
part_name_of(p) == IF p.none THEN <<>> ELSE strip_blanks(p.s)

\* Lines 944-948: None for a missing or blank zip_code, the stripped string
\* otherwise.
zip_code_of(z) ==
    IF z.none \/ strip_blanks(z.s) = <<>> THEN None ELSE Str(strip_blanks(z.s))

\* str.replace(' ', '_'), line 960.
replace_blanks(s) == [i \in DOMAIN s |-> IF s[i] = " " THEN "_" ELSE s[i]]

\* cache_key, line 960.
cache_key(part_name, zip_code) ==
    replace_blanks(lower(
        <<"p", "a", "r", "t", "s", "_">> \o part_name \o <<"_">>
            \o (IF zip_code.none THEN <<"a", "n", "y">> ELSE zip_code.s)))

\* What search_parts_sync(part_name, zip_code) finds at time t: the listings
\* depend on what was asked and on when.
parts_found(part_name, zip_code, t) == [part |-> part_name, zip |-> zip_code, as_of |-> t]

SearchResult(f, resp, calls) == [file |-> f, resp |-> resp, scraper_calls |-> calls]

\* search_parts without lines 959-965: every request goes to the scraper.
search_parts_uncached(f, r, scraper, t) ==
    LET part_name == part_name_of(r.part_name)
        zip_code == zip_code_of(r.zip_code)
        found == SearchResponse(200, "-", part_name, zip_code,
                                   parts_found(part_name, zip_code, t), FALSE)
    IN  IF part_name = <<>> THEN SearchResult(f, SearchError(400, "part_name is required"), 0)
        ELSE IF scraper = "raises"
        THEN SearchResult(f, SearchError(500, "Failed to search parts"), 1)
        ELSE SearchResult(f, found, 1)

\* search_parts, lines 920-1002, for a body that is a JSON object.
search_parts(f, r, scraper, t) ==
    LET part_name == part_name_of(r.part_name)
        zip_code == zip_code_of(r.zip_code)
        key == cache_key(part_name, zip_code)
        cached_result == get_cached_parts_search(f, key, t)
        found == SearchResponse(200, "-", part_name, zip_code,
                                   parts_found(part_name, zip_code, t), FALSE)
        stored == cache_parts_search(cached_result.file, key, found, t)
    IN  IF part_name = <<>> THEN SearchResult(f, SearchError(400, "part_name is required"), 0)
        ELSE IF scraper = "import_error"
        THEN SearchResult(f, SearchError(500, "Parts search service unavailable"), 0)
        ELSE IF cached_result.raised
        THEN SearchResult(f, SearchError(500, "Internal server error"), 0)
        ELSE IF cached_result.ret = "value"
        THEN SearchResult(f, [cached_result.data EXCEPT !.cached = TRUE], 0)
        ELSE IF scraper = "raises"
        THEN SearchResult(cached_result.file, SearchError(500, "Failed to search parts"), 1)
        ELSE IF stored.raised
        THEN SearchResult(stored.file, SearchError(500, "Failed to search parts"), 1)
        ELSE SearchResult(stored.file, found, 1)

\* The bodies a client sends: a part name written with a blank, with
\* capitals, with an underscore; with no zip code and with the zip code
\* "any"; another part with a zip code; and a body without part_name.
SearchRequests ==
    { [part_name |-> Str(<<"b", "r", "a", "k", "e", " ", "p", "a", "d">>),
       zip_code |-> None],
      [part_name |-> Str(<<"B", "r", "a", "k", "e", " ", "P", "a", "d">>),
       zip_code |-> None],
      [part_name |-> Str(<<"b", "r", "a", "k", "e", "_", "p", "a", "d">>),
       zip_code |-> None],
      [part_name |-> Str(<<"b", "r", "a", "k", "e", " ", "p", "a", "d">>),
       zip_code |-> Str(<<"a", "n", "y">>)],
      [part_name |-> Str(<<" ", "d", "o", "o", "r", " ">>),
       zip_code |-> Str(<<"9", "0", "2", "1", "0">>)],
      [part_name |-> None,
       zip_code |-> Str(<<"9", "0", "2", "1", "0">>)] }

SearchScraperOutcomes == {"ok", "raises", "import_error"}

\* The cache file an earlier run left: none, one that cannot be opened, one
\* that holds no JSON object, an empty store, and a store with an entry for
\* the first request whose hour has passed.
SearchFiles ==
    { FileOf(k, <<>>) : k \in {"missing", "unreadable", "json_list", "json_scalar"} }
    \cup { FileOf("mapping", <<>>) }
    \cup { FileOf("mapping",
             <<Entry(cache_key(<<"b", "r", "a", "k", "e", " ", "p", "a", "d">>, None),
                     Iso(StartTime - expiry_delta),
                     SearchResponse(200, "-", <<"b", "r", "a", "k", "e", " ", "p", "a", "d">>, None,
                                    parts_found(<<"b", "r", "a", "k", "e", " ", "p", "a", "d">>, None,
                                                StartTime - expiry_delta), FALSE))>>) }

SearchInit ==
    /\ cache_file \in SearchFiles
    /\ now = StartTime
    /\ last_op = NoOp
    /\ insert_order = <<>>
    /\ read_removed = FALSE
    /\ search_req = NoSearch
    /\ search_resp = SearchError(0, "-")
    /\ search_scraper_calls = 0
    /\ answered = [r \in SearchRequests |-> 0]
    /\ QueryIdle
    /\ KbIdle
    /\ ImportIdle
    /\ FmtIdle
    /\ RaceIdle
    /\ ChatIdle
    /\ EnvIdle
    /\ PromptIdle

\* POST /api/search-parts.  answered records, per request, the time of its
\* last answer that came from the scraper (0: none yet).
SearchParts(r, scraper) ==
    LET out == search_parts(cache_file, r, scraper, now)
    IN  /\ cache_file' = out.file
        /\ search_req' = r
        /\ search_resp' = out.resp
        /\ search_scraper_calls' = out.scraper_calls
        /\ answered' = IF out.resp.status = 200 /\ ~out.resp.cached
                       THEN [answered EXCEPT ![r] = now]
                       ELSE answered
        /\ UNCHANGED <<now, last_op, insert_order, read_removed>>

SearchTick ==
    /\ now < StartTime + MaxTicks
    /\ now' = now + 1
    /\ UNCHANGED <<cache_file, last_op, insert_order, read_removed, searchVars>>

SearchNext ==
    /\ \/ \E r \in SearchRequests, scraper \in SearchScraperOutcomes : SearchParts(r, scraper)
       \/ SearchTick
    /\ UNCHANGED <<queryVars, kbVars, importVars, fmtVars, raceVars, chatVars, envVars,
                   promptVars>>

SpecSearch == SearchInit /\ [][SearchNext]_vars

\* ---- properties of the search-parts endpoint

\* the request r was last answered by the scraper less than an hour ago
AnsweredWithinTheHour(r) ==
    /\ r \in DOMAIN answered
    /\ answered[r] # 0
    /\ now < answered[r] + CACHE_EXPIRY_HOURS * TicksPerHour

\* the response is the cached answer of the request r: the same parts, from
\* the cache, and the scraper was not invoked
IsCachedAnswerOf(r, resp, calls) ==
    /\ resp.status = 200
    /\ resp.cached
    /\ resp.parts = parts_found(part_name_of(r.part_name), zip_code_of(r.zip_code), answered[r])
    /\ calls = 0

StoreHoldsEntryOf(r) ==
    /\ cache_file.kind = "mapping"
    /\ HasKey(cache_file.entries,
              cache_key(part_name_of(r.part_name), zip_code_of(r.zip_code)))

C28_CachedResponseIsOfSameParameters ==
    (search_resp.status = 200 /\ search_resp.cached) =>
        /\ Lowered(search_resp.part_name) = Lowered(part_name_of(search_req.part_name))
        /\ search_resp.zip_code.none = zip_code_of(search_req.zip_code).none
        /\ Lowered(search_resp.zip_code.s) = Lowered(zip_code_of(search_req.zip_code).s)

-----------------------------------------------------------------------------
(* The import of the application module, lines 66-74 and 387, and the      *)
(* context assemblies of the loaded module.                                *)

\* Lines 67-74: ImportError is caught and POSTGRES_AVAILABLE records it.
import_postgres(importable) == importable

\* Line 387, "def get_postgres_vector_db() -> Optional[PostgresVectorDB]":
\* an interpreter that evaluates annotations when the def statement runs
\* looks the name up, and the name is bound only by the import of line 68.
def_get_postgres_vector_db(importable, eager) ==
    IF eager /\ ~importable THEN "failed" ELSE "loaded"

ImportMessages ==
    {UserMessage(1, TRUE, FALSE, FALSE), UserMessage(1, TRUE, TRUE, TRUE)}

ImportInit ==
    /\ module_importable \in BOOLEAN
    /\ annotations_eager \in BOOLEAN
    /\ load_state = "unloaded"
    /\ context_call = NoContextCall
    /\ postgres_available = FALSE
    /\ postgres_vector_db = "None"
    /\ QueryIdle
    /\ KbIdle
    /\ SearchIdle
    /\ FmtIdle
    /\ CacheIdle
    /\ RaceIdle
    /\ ChatIdle
    /\ PromptIdle

\* import AgentRepair
LoadModule ==
    /\ load_state = "unloaded"
    /\ postgres_available' = import_postgres(module_importable)
    /\ load_state' = def_get_postgres_vector_db(module_importable, annotations_eager)
    /\ UNCHANGED <<module_importable, annotations_eager, context_call, postgres_vector_db>>

\* get_volvo_context(user_message), called by the loaded module
AssembleContext ==
    /\ load_state = "loaded"
    /\ \E msg \in ImportMessages, env \in ContextEnvs :
         LET out == get_volvo_context(msg, postgres_available, postgres_vector_db, env)
         IN  /\ context_call' = [made |-> TRUE, env |-> env, raised |-> out.raised,
                                 context |-> out.context, calls |-> out.calls]
             /\ postgres_vector_db' = out.db
    /\ UNCHANGED <<module_importable, annotations_eager, load_state, postgres_available>>

ImportNext ==
    /\ LoadModule \/ AssembleContext
    /\ UNCHANGED <<queryVars, kbVars, searchVars, fmtVars, cacheVars, raceVars, chatVars,
                   promptVars>>

SpecImport == ImportInit /\ [][ImportNext]_vars

\* ---- properties of the import

\* C30: when postgres_vector_db cannot be imported, the application module
\* loads to completion with POSTGRES_AVAILABLE false, and every context
\* assembly after it makes no call to the vector database and takes its
\* context from the JSON knowledge base.
C30_LoadsWithoutVectorDb ==
    (~module_importable /\ load_state \notin {"off", "unloaded"}) =>
        /\ load_state = "loaded"
        /\ postgres_available = FALSE
        /\ postgres_vector_db = "None"
        /\ context_call.made =>
             /\ context_call.calls = 0
             /\ context_call.context # <<"VECTOR DB CONTEXT">>

====
